---- MODULE Spec2Model ----
(***************************************************************************)
(* Model of the .mht import engine of the Notes application:               *)
(*   src/app.py            parse_mht_to_html, html_to_body,                *)
(*                         strip_data_uri_images, the upload loop of main  *)
(*   src/script/import.py  load_mht, main                                  *)
(*                                                                         *)
(* Text is modelled as a sequence of one-character strings, so that the    *)
(* string operations of the code (unquote, strip, replace, lower,          *)
(* startswith, slicing, basename, base64) are computed character by        *)
(* character as the code computes them.  Bytes are integers 0..255.        *)
(***************************************************************************)
EXTENDS Integers, Sequences, FiniteSets, TLC

VARIABLES
  pc,         \* position of the run: which statement of the code is next
  data,       \* the archive handed to parse_mht_to_html: the parts of msg.walk()
  filename,   \* the file name handed to parse_mht_to_html
  html_part,  \* parse_mht_to_html: html_part (None until a text/html part is met)
  resources,  \* parse_mht_to_html: resources, (ctype, payload, cid, loc) tuples
  src_map,    \* parse_mht_to_html: src_map, key -> data URL
  soup0,      \* the tree BeautifulSoup(html_part) as parsed, before any rewrite
  soup,       \* the tree being rewritten in place by the src loop
  outcome,    \* what the call produced: None, [ok: (title, body)] or [error]
  uploaded,   \* batch callers: the list of files of the batch
  fileIdx,    \* batch callers: index of the file the loop is at
  pages,      \* the page store: rows inserted so far, in order
  imported,   \* upload loop of app.py: imported
  errors,     \* upload loop of app.py: errors
  shown,      \* what the Streamlit run has displayed to the user
  idx,        \* index of the element the current for loop is at
  html,       \* strip_data_uri_images: the argument
  stripped,   \* strip_data_uri_images: the value returned (None before the call)
  store,      \* the database of app.py: notebooks, owners, sections, pages
  ui,         \* the Streamlit session: the login, the page in edit mode, the editor
  calls       \* the database operations the latest run of main() has called

vars == <<pc, data, filename, html_part, resources, src_map, soup0, soup, outcome,
          uploaded, fileIdx, pages, imported, errors, shown, idx, html, stripped,
          store, ui, calls>>

(***************************************************************************)
(* Characters and strings                                                  *)
(***************************************************************************)

\* The printable ASCII characters, code 32 to 126, in code order ("GRAVE" stands
\* for the grave accent, code 96, which the lexer of the language cannot quote).
Ascii ==
  <<
     " ", "!", "\"", "#", "$", "%", "&", "'", "(", ")", "*", "+", ",", "-", ".", "/",
     "0", "1", "2", "3", "4", "5", "6", "7", "8", "9", ":", ";", "<", "=", ">", "?",
     "@", "A", "B", "C", "D", "E", "F", "G", "H", "I", "J", "K", "L", "M", "N", "O",
     "P", "Q", "R", "S", "T", "U", "V", "W", "X", "Y", "Z", "[", "\\", "]", "^", "_",
     "GRAVE", "a", "b", "c", "d", "e", "f", "g", "h", "i", "j", "k", "l", "m", "n", "o",
     "p", "q", "r", "s", "t", "u", "v", "w", "x", "y", "z", "{", "|", "}", "~"
  >>

\* None of Python.  No text equals it: every character of a text is one character long.
None == <<"None">>

\* Python truthiness of an optional text or byte string: None and "" are false.
Truthy(v) == v # None /\ v # <<>>

IsPrintable(c) == \E i \in 1..Len(Ascii) : Ascii[i] = c

\* ord(c) for a printable ASCII character.
Ord(c) == (CHOOSE i \in 1..Len(Ascii) : Ascii[i] = c) + (32 - 1)

\* chr(n) as urllib.parse.unquote produces it from one escaped byte: printable
\* ASCII exactly, the ASCII white space controls, and one replacement token for
\* a byte that is not a complete UTF-8 sequence (errors='replace').  Other
\* control bytes share one token; no input of the model escapes one.
Chr(n) ==
  IF n \in 32..126 THEN Ascii[n - (32 - 1)]
  ELSE IF n = 9 THEN "\t"
  ELSE IF n = 10 THEN "\n"
  ELSE IF n = 12 THEN "\f"
  ELSE IF n = 13 THEN "\r"
  ELSE IF n >= 128 THEN "U+FFFD"
  ELSE "CTRL"

HexDigits == <<"0", "1", "2", "3", "4", "5", "6", "7", "8", "9",
               "A", "B", "C", "D", "E", "F">>
HexLower == <<"a", "b", "c", "d", "e", "f">>

IsHex(c) == (\E i \in 1..Len(HexDigits) : HexDigits[i] = c)
            \/ (\E i \in 1..Len(HexLower) : HexLower[i] = c)

HexVal(c) ==
  IF \E i \in 1..Len(HexDigits) : HexDigits[i] = c
  THEN (CHOOSE i \in 1..Len(HexDigits) : HexDigits[i] = c) - 1
  ELSE (CHOOSE i \in 1..Len(HexLower) : HexLower[i] = c) + 9

\* str.lower() of one character (ASCII letters; other characters are unchanged).
LowerChar(c) ==
  IF IsPrintable(c) /\ Ord(c) \in 65..90 THEN Chr(Ord(c) + 32) ELSE c

lower(s) == [i \in 1..Len(s) |-> LowerChar(s[i])]

startswith(s, p) == Len(s) >= Len(p) /\ SubSeq(s, 1, Len(p)) = p

\* s[n:] of Python (n >= 0).
SliceFrom(s, n) == SubSeq(s, n + 1, Len(s))

\* str.replace(old, new) for one-character old and new.
replace(s, old, new) == [i \in 1..Len(s) |-> IF s[i] = old THEN new ELSE s[i]]

\* The characters str.strip() removes.
Whitespace == {" ", "\t", "\n", "\r", "\f"}

\* str.strip(chars): drop the leading and the trailing characters that are in chars.
stripChars(s, chars) ==
  LET keep == {i \in 1..Len(s) : s[i] \notin chars}
      lo == CHOOSE i \in keep : \A j \in keep : i <= j
      hi == CHOOSE i \in keep : \A j \in keep : i >= j
  IN IF keep = {} THEN <<>> ELSE SubSeq(s, lo, hi)

strip(s) == stripChars(s, Whitespace)

\* urllib.parse.unquote: a left to right scan; "%" followed by two hex digits
\* becomes the byte they name, anything else is copied.  The output of a
\* decoded escape is not scanned again.
RECURSIVE unquoteFrom(_, _)
unquoteFrom(s, i) ==
  IF i > Len(s) THEN <<>>
  ELSE IF s[i] = "%" /\ i + 2 <= Len(s) /\ IsHex(s[i + 1]) /\ IsHex(s[i + 2])
       THEN <<Chr(16 * HexVal(s[i + 1]) + HexVal(s[i + 2]))>> \o unquoteFrom(s, i + 3)
       ELSE <<s[i]>> \o unquoteFrom(s, i + 1)

unquote(s) == unquoteFrom(s, 1)

\* os.path.basename (posixpath): what follows the last "/".
basename(p) ==
  LET slashes == {i \in 1..Len(p) : p[i] = "/"}
      last == CHOOSE i \in slashes : \A j \in slashes : i >= j
  IN IF slashes = {} THEN p ELSE SubSeq(p, last + 1, Len(p))

\* The literal "cid:" the normalizer writes, and the upper-case spelling the
\* map builder also registers.
CidPrefix == <<"c", "i", "d", ":">>
CidPrefixUpper == <<"C", "I", "D", ":">>

\* norm with a bug: the text is trimmed before it is decoded.
norm_TrimFirst(val) ==
  LET v0 == IF val = None THEN <<>> ELSE val
      v1 == unquote(strip(v0))
      v2 == replace(v1, "\\", "/")
  IN IF startswith(lower(v2), CidPrefix)
     THEN CidPrefix \o SliceFrom(v2, Len(CidPrefix))
     ELSE v2

\* norm(val) of parse_mht_to_html / load_mht.
norm(val) ==
  LET v0 == IF val = None THEN <<>> ELSE val
      v1 == strip(unquote(v0))
      v2 == replace(v1, "\\", "/")
  IN IF startswith(lower(v2), CidPrefix)
     THEN CidPrefix \o SliceFrom(v2, Len(CidPrefix))
     ELSE v2

(***************************************************************************)
(* base64                                                                  *)
(***************************************************************************)

B64Alphabet ==
  <<
     "A", "B", "C", "D", "E", "F", "G", "H", "I", "J", "K", "L", "M", "N", "O", "P",
     "Q", "R", "S", "T", "U", "V", "W", "X", "Y", "Z", "a", "b", "c", "d", "e", "f",
     "g", "h", "i", "j", "k", "l", "m", "n", "o", "p", "q", "r", "s", "t", "u", "v",
     "w", "x", "y", "z", "0", "1", "2", "3", "4", "5", "6", "7", "8", "9", "+", "/"
  >>

B64Char(n) == B64Alphabet[n + 1]
B64Val(c) == (CHOOSE i \in 1..Len(B64Alphabet) : B64Alphabet[i] = c) - 1

\* base64.b64encode(content).decode(): three bytes become four characters, the
\* last group is padded with "=".
RECURSIVE b64encode(_)
b64encode(b) ==
  IF Len(b) = 0 THEN <<>>
  ELSE IF Len(b) = 1
  THEN <<B64Char(b[1] \div 4), B64Char((b[1] % 4) * 16), "=", "=">>
  ELSE IF Len(b) = 2
  THEN <<B64Char(b[1] \div 4), B64Char((b[1] % 4) * 16 + b[2] \div 16),
         B64Char((b[2] % 16) * 4), "=">>
  ELSE <<B64Char(b[1] \div 4), B64Char((b[1] % 4) * 16 + b[2] \div 16),
         B64Char((b[2] % 16) * 4 + b[3] \div 64), B64Char(b[3] % 64)>>
       \o b64encode(SubSeq(b, 4, Len(b)))

\* base64.b64decode of a padded text: the inverse the claims decode with.
RECURSIVE b64decode(_)
b64decode(t) ==
  IF Len(t) < 4 THEN <<>>
  ELSE LET a == B64Val(t[1])
           b == B64Val(t[2])
           rest == b64decode(SubSeq(t, 5, Len(t)))
       IN IF t[3] = "="
          THEN <<a * 4 + b \div 16>>
          ELSE IF t[4] = "="
          THEN <<a * 4 + b \div 16, (b % 16) * 16 + B64Val(t[3]) \div 4>>
          ELSE <<a * 4 + b \div 16, (b % 16) * 16 + B64Val(t[3]) \div 4,
                 (B64Val(t[3]) % 4) * 64 + B64Val(t[4])>> \o rest

(***************************************************************************)
(* MIME parts                                                              *)
(*                                                                         *)
(* An archive is the sequence of parts msg.walk() yields: the root         *)
(* container first, then the sub-parts in document order.  A part carries  *)
(* what the code reads of it: get_content_type(), get_payload(decode=True) *)
(* (NoBytes for a multipart container, where it returns None), the         *)
(* Content-ID and Content-Location headers (None when absent), the charset *)
(* get_content_charset() returns and, for a text part, the text its        *)
(* payload decodes to under a text encoding with errors="replace" (a byte  *)
(* the encoding cannot decode is the character U+FFFD of the text).        *)
(***************************************************************************)

TextHtml == <<"t", "e", "x", "t", "/", "h", "t", "m", "l">>
ImagePng == <<"i", "m", "a", "g", "e", "/", "p", "n", "g">>
ImageGif == <<"i", "m", "a", "g", "e", "/", "g", "i", "f">>
MultipartRelated == <<"m", "u", "l", "t", "i", "p", "a", "r", "t", "/",
                      "r", "e", "l", "a", "t", "e", "d">>

\* get_payload(decode=True) of a multipart part: None.
NoBytes == <<-1>>

\* Charset names, as get_content_charset() returns them (lower case; None when
\* the part declares none).
Cs_utf8 == <<"u", "t", "f", "-", "8">>
Cs_cp1251 == <<"w", "i", "n", "d", "o", "w", "s", "-", "1", "2", "5", "1">>
Cs_unknown == <<"x", "-", "u", "n", "k", "n", "o", "w", "n">>
Cs_hex == <<"h", "e", "x">>

\* The names bytes.decode() finds a text encoding for.  For any other name
\* (one no codec is registered for, or a codec that is not a text encoding,
\* such as "hex") it raises LookupError, whatever the errors= argument.
TextCodecs == {Cs_utf8, Cs_cp1251}

(***************************************************************************)
(* HTML text and the BeautifulSoup tree                                    *)
(*                                                                         *)
(* HTML text is a sequence of tokens: start tags as they are spelled       *)
(* (letter case of the names, the quote of each attribute value, a         *)
(* trailing slash), end tags and character data.  The tree is the          *)
(* sequence of its nodes in document order: names in lower case, one value *)
(* per attribute name, no spelling.  Inputs are well nested; character     *)
(* references are not modelled.                                            *)
(***************************************************************************)

\* html_part before a text/html part was met.
NoneHtml == <<[t |-> "None", name |-> <<>>, attrs |-> <<>>, data |-> <<>>, sc |-> FALSE]>>

StartTok(name, attrs, sc) ==
  [t |-> "start", name |-> name, attrs |-> attrs, data |-> <<>>, sc |-> sc]
EndTok(name) ==
  [t |-> "end", name |-> name, attrs |-> <<>>, data |-> <<>>, sc |-> FALSE]
TextTok(chars) ==
  [t |-> "text", name |-> <<>>, attrs |-> <<>>, data |-> chars, sc |-> FALSE]

\* An attribute as spelled in a start tag: name, value, quote character.
RawAttr(n, v, q) == [n |-> n, v |-> v, q |-> q]

N_img == <<"i", "m", "g">>
N_br == <<"b", "r">>
N_hr == <<"h", "r">>
N_input == <<"i", "n", "p", "u", "t">>
N_meta == <<"m", "e", "t", "a">>
N_link == <<"l", "i", "n", "k">>
N_title == <<"t", "i", "t", "l", "e">>
N_body == <<"b", "o", "d", "y">>
N_src == <<"s", "r", "c">>

\* The elements html.parser's tree builder closes as soon as they open and
\* the serializer writes with a trailing slash.
VoidElements == {N_img, N_br, N_hr, N_input, N_meta, N_link}

\* The attributes of a start tag as the tree holds them: names in lower case;
\* a name given twice keeps its first position and its last value.
RECURSIVE TreeAttrs(_, _)
TreeAttrs(raw, i) ==
  IF i > Len(raw) THEN <<>>
  ELSE LET n == lower(raw[i].n)
           earlier == \E j \in 1..(i - 1) : lower(raw[j].n) = n
           same == {j \in i..Len(raw) : lower(raw[j].n) = n}
           lastj == CHOOSE j \in same : \A k \in same : j >= k
       IN IF earlier THEN TreeAttrs(raw, i + 1)
          ELSE <<[n |-> n, v |-> raw[lastj].v]>> \o TreeAttrs(raw, i + 1)

\* BeautifulSoup(text, "html.parser"): the tree of an HTML text.
RECURSIVE SoupFrom(_, _)
SoupFrom(text, i) ==
  IF i > Len(text) THEN <<>>
  ELSE LET tok == text[i]
           rest == SoupFrom(text, i + 1)
       IN CASE tok.t = "start" ->
                 <<[t |-> "start", name |-> lower(tok.name),
                    attrs |-> TreeAttrs(tok.attrs, 1), data |-> <<>>]>> \o rest
            [] tok.t = "end" ->
                 IF lower(tok.name) \in VoidElements THEN rest
                 ELSE <<[t |-> "end", name |-> lower(tok.name),
                         attrs |-> <<>>, data |-> <<>>]>> \o rest
            [] OTHER ->
                 <<[t |-> "text", name |-> <<>>, attrs |-> <<>>, data |-> tok.data]>>
                 \o rest

BeautifulSoup(text) == SoupFrom(IF text = NoneHtml THEN <<>> ELSE text, 1)

\* str(soup): every attribute value in double quotes, void elements with a
\* trailing slash.
SoupToStr(tree) ==
  [i \in 1..Len(tree) |->
     LET node == tree[i]
     IN IF node.t = "start"
        THEN StartTok(node.name,
                      [j \in 1..Len(node.attrs) |->
                         RawAttr(node.attrs[j].n, node.attrs[j].v, "\"")],
                      node.name \in VoidElements)
        ELSE IF node.t = "end" THEN EndTok(node.name)
        ELSE TextTok(node.data)]

HasAttr(node, n) == node.t = "start" /\ \E j \in 1..Len(node.attrs) : node.attrs[j].n = n

\* tag.get(n, "")
GetAttr(node, n) ==
  IF HasAttr(node, n)
  THEN node.attrs[CHOOSE j \in 1..Len(node.attrs) : node.attrs[j].n = n].v
  ELSE <<>>

\* SetAttr with a bug: the assignment replaces the attributes of the tag.
SetAttr_Clobber(node, n, v) == [node EXCEPT !.attrs = <<[n |-> n, v |-> v]>>]

\* tag[n] = v
SetAttr(node, n, v) ==
  IF HasAttr(node, n)
  THEN [node EXCEPT !.attrs =
          [j \in 1..Len(node.attrs) |->
             IF node.attrs[j].n = n THEN [n |-> n, v |-> v] ELSE node.attrs[j]]]
  ELSE [node EXCEPT !.attrs = Append(node.attrs, [n |-> n, v |-> v])]

(***************************************************************************)
(* parse_mht_to_html (src/app.py); load_mht of src/script/import.py is the *)
(* same code up to the exception message and the title fallback            *)
(***************************************************************************)

\* One iteration of "for part in msg.walk()": st is (html_part, resources)
\* and, once .decode(charset, errors="replace") has raised LookupError, the
\* charset it raised on.
WalkStep(st, part) ==
  IF part.ctype = TextHtml /\ st.html_part = NoneHtml
  THEN LET charset == IF Truthy(part.charset) THEN part.charset ELSE Cs_utf8
       IN IF charset \in TextCodecs
          THEN [st EXCEPT !.html_part = part.text]
          ELSE [st EXCEPT !.raised = charset]
  ELSE LET payload == IF part.payload = NoBytes \/ part.payload = <<>>
                      THEN <<>> ELSE part.payload
       IN IF Truthy(part.cid) \/ Truthy(part.loc)
          THEN [st EXCEPT !.resources =
                  Append(@, [ctype |-> part.ctype, content |-> payload,
                             cid |-> part.cid, loc |-> part.loc])]
          ELSE st

RECURSIVE WalkFrom(_, _, _)
WalkFrom(parts, i, st) ==
  IF i > Len(parts) \/ st.raised # None THEN st
  ELSE WalkFrom(parts, i + 1, WalkStep(st, parts[i]))

\* The whole walk loop, up to its end or to the exception that leaves it.
Walk(parts) ==
  WalkFrom(parts, 1, [html_part |-> NoneHtml, resources |-> <<>>, raised |-> None])

\* NotHtmlPart with a bug: only the empty text counts as missing.
NotHtmlPart_EmptyOnly(hp) == hp = <<>>

\* "if not html_part": None and the empty text are both false.
NotHtmlPart(hp) == hp = NoneHtml \/ hp = <<>>

S_data == <<"d", "a", "t", "a", ":">>
S_base64 == <<";", "b", "a", "s", "e", "6", "4", ",">>

\* data_url = f"data:{ctype};base64,{base64.b64encode(content).decode()}"
DataUrl(ctype, content) == S_data \o ctype \o S_base64 \o b64encode(content)

AngleBrackets == {"<", ">"}

\* The keys the loop over a Content-ID assigns, in the order it assigns them.
CidKeys(cid) ==
  LET cid_clean == stripChars(cid, AngleBrackets)
  IN <<CidPrefix \o cid_clean, CidPrefixUpper \o cid_clean, cid_clean, norm(cid_clean)>>

\* The keys the two loops over a Content-Location assign, in order.
LocKeys(loc) ==
  LET loc_clean == stripChars(strip(loc), AngleBrackets)
      normalized == norm(loc_clean)
      bn == basename(normalized)
  IN <<loc_clean, CidPrefix \o loc_clean, CidPrefixUpper \o loc_clean, normalized>>
     \o (IF bn # <<>>
         THEN <<bn, CidPrefix \o bn, CidPrefixUpper \o bn, norm(bn)>>
         ELSE <<>>)

\* All the keys one resource is registered under, in assignment order.
ResourceKeys(r) ==
  (IF Truthy(r.cid) THEN CidKeys(r.cid) ELSE <<>>)
  \o (IF Truthy(r.loc) THEN LocKeys(r.loc) ELSE <<>>)

\* MapPut with a bug: a key that is already in the map keeps its value.
MapPut_FirstWins(m, key, data_url) ==
  [k \in DOMAIN m \cup {key} |-> IF k \in DOMAIN m THEN m[k] ELSE data_url]

\* src_map[key] = data_url
MapPut(m, key, data_url) ==
  [k \in DOMAIN m \cup {key} |-> IF k = key THEN data_url ELSE m[k]]

RECURSIVE MapPutAll(_, _, _)
MapPutAll(m, keys, data_url) ==
  IF keys = <<>> THEN m
  ELSE MapPutAll(MapPut(m, Head(keys), data_url), Tail(keys), data_url)

\* One iteration of "for ctype, content, cid, loc in resources".
Register(m, r) == MapPutAll(m, ResourceKeys(r), DataUrl(r.ctype, r.content))

EmptyMap == [k \in {} |-> <<>>]

RECURSIVE BuildFrom(_, _, _)
BuildFrom(res, i, m) ==
  IF i > Len(res) THEN m ELSE BuildFrom(res, i + 1, Register(m, res[i]))

\* The whole map building loop.
BuildSrcMap(res) == BuildFrom(res, 1, EmptyMap)

\* soup.find_all(src=True): the positions of the elements that carry a src
\* attribute, in document order.
RECURSIVE FindAllSrcFrom(_, _)
FindAllSrcFrom(tree, i) ==
  IF i > Len(tree) THEN <<>>
  ELSE (IF HasAttr(tree[i], N_src) THEN <<i>> ELSE <<>>) \o FindAllSrcFrom(tree, i + 1)

FindAllSrc(tree) == FindAllSrcFrom(tree, 1)

\* RewriteSrc with a bug: a src that matches nothing is blanked.
RewriteSrc_BlankOnMiss(tag, m) ==
  LET lookup == norm(GetAttr(tag, N_src))
      bn == basename(lookup)
  IN IF lookup \in DOMAIN m THEN SetAttr(tag, N_src, m[lookup])
     ELSE IF bn \in DOMAIN m THEN SetAttr(tag, N_src, m[bn])
     ELSE SetAttr(tag, N_src, <<>>)

\* RewriteSrc with a bug: no second lookup by basename.
RewriteSrc_NoRetry(tag, m) ==
  LET lookup == norm(GetAttr(tag, N_src))
  IN IF lookup \in DOMAIN m THEN SetAttr(tag, N_src, m[lookup]) ELSE tag

\* RewriteSrc with a bug: the src is looked up as it is spelled.
RewriteSrc_RawLookup(tag, m) ==
  LET lookup == GetAttr(tag, N_src)
      bn == basename(lookup)
  IN IF lookup \in DOMAIN m THEN SetAttr(tag, N_src, m[lookup])
     ELSE IF bn \in DOMAIN m THEN SetAttr(tag, N_src, m[bn])
     ELSE tag

\* RewriteSrc with a bug: the basename is looked up before the whole src.
RewriteSrc_BasenameFirst(tag, m) ==
  LET lookup == norm(GetAttr(tag, N_src))
      bn == basename(lookup)
  IN IF bn \in DOMAIN m THEN SetAttr(tag, N_src, m[bn])
     ELSE IF lookup \in DOMAIN m THEN SetAttr(tag, N_src, m[lookup])
     ELSE tag

\* The body of the loop over the src-bearing elements, for one element.
RewriteSrc(tag, m) ==
  LET src_val == GetAttr(tag, N_src)
      lookup == norm(src_val)
      bn == basename(lookup)
  IN IF lookup \in DOMAIN m THEN SetAttr(tag, N_src, m[lookup])
     ELSE IF bn \in DOMAIN m THEN SetAttr(tag, N_src, m[bn])
     ELSE tag

RECURSIVE RewriteFrom(_, _, _, _)
RewriteFrom(tree, found, i, m) ==
  IF i > Len(found) THEN tree
  ELSE RewriteFrom([tree EXCEPT ![found[i]] = RewriteSrc(tree[found[i]], m)],
                   found, i + 1, m)

\* The whole rewrite loop.
Rehydrate(tree, m) == RewriteFrom(tree, FindAllSrc(tree), 1, m)

\* The position of the first start tag called name, or 0.
FirstStart(tree, name) ==
  LET hits == {i \in 1..Len(tree) : tree[i].t = "start" /\ tree[i].name = name}
  IN IF hits = {} THEN 0 ELSE CHOOSE i \in hits : \A j \in hits : i <= j

\* The position of the end tag that closes the element opened at position i
\* (elements of one name do not nest in the inputs), or Len(tree) when the
\* element is never closed.
ClosingEnd(tree, i) ==
  LET hits == {j \in (i + 1)..Len(tree) : tree[j].t = "end" /\ tree[j].name = tree[i].name}
  IN IF hits = {} THEN Len(tree) ELSE CHOOSE j \in hits : \A k \in hits : j <= k

\* soup.title.string: the text of the title element when its only child is a
\* text node, else None.
TitleString(tree) ==
  LET i == FirstStart(tree, N_title)
  IN IF i = 0 THEN None
     ELSE IF ClosingEnd(tree, i) = i + 2 /\ tree[i + 1].t = "text"
     THEN tree[i + 1].data
     ELSE None

\* html_to_body with a bug: the body is always the whole document.
html_to_body_WholeDoc(text, fallback_title) ==
  LET tree == BeautifulSoup(text)
      str == TitleString(tree)
  IN [title |-> IF Truthy(str) THEN strip(str) ELSE fallback_title,
      body |-> SoupToStr(tree)]

\* html_to_body(text, fallback_title)
html_to_body(text, fallback_title) ==
  LET tree == BeautifulSoup(text)
      str == TitleString(tree)
      b == FirstStart(tree, N_body)
  IN [title |-> IF Truthy(str) THEN strip(str) ELSE fallback_title,
      body |-> IF b = 0 THEN SoupToStr(tree)
               ELSE SoupToStr(SubSeq(tree, b, ClosingEnd(tree, b)))]

\* filename.rsplit(".", 1)[0]
RsplitDot(name) ==
  LET dots == {i \in 1..Len(name) : name[i] = "."}
      last == CHOOSE i \in dots : \A j \in dots : i >= j
  IN IF dots = {} THEN name ELSE SubSeq(name, 1, last - 1)

\* What a call produces: nothing yet, a returned (title, body_html), or a
\* raised exception with its message.
NoOutcome == [kind |-> "none", title |-> <<>>, body |-> <<>>, exc |-> "", msg |-> "", arg |-> <<>>]
Returned(tb) ==
  [kind |-> "ok", title |-> tb.title, body |-> tb.body, exc |-> "", msg |-> "", arg |-> <<>>]
Raised(exc, msg, arg) ==
  [kind |-> "error", title |-> <<>>, body |-> <<>>, exc |-> exc, msg |-> msg, arg |-> arg]

\* raise ValueError(...) of app.py, line 382: the message is the Russian for
\* "the login must not be empty" and names no file.
RaiseNoHtmlApp == Raised("ValueError", "login must not be empty", <<>>)

\* The LookupError("unknown encoding: ...") that bytes.decode raises.
RaiseLookupError(charset) == Raised("LookupError", "unknown encoding", charset)

\* parse_mht_to_html(data, filename) as one function of its arguments.
parse_mht_to_html(parts, name) ==
  LET st == Walk(parts)
  IN IF st.raised # None THEN RaiseLookupError(st.raised)
     ELSE IF NotHtmlPart(st.html_part) THEN RaiseNoHtmlApp
     ELSE Returned(html_to_body(
            SoupToStr(Rehydrate(BeautifulSoup(st.html_part), BuildSrcMap(st.resources))),
            RsplitDot(name)))

\* PathStem with a bug: every suffix is cut, not the last one only.
PathStem_AllSuffixes(path) ==
  LET name == basename(path)
      dots == {i \in 2..Len(name) : name[i] = "."}
      first == CHOOSE i \in dots : \A j \in dots : i <= j
  IN IF dots # {} THEN SubSeq(name, 1, first - 1) ELSE name

\* path.stem of pathlib: the final component without its last suffix; a name
\* that starts or ends with its only dot has no suffix.
PathStem(path) ==
  LET name == basename(path)
      dots == {i \in 1..Len(name) : name[i] = "."}
      last == CHOOSE i \in dots : \A j \in dots : i >= j
  IN IF dots # {} /\ last > 1 /\ last < Len(name) THEN SubSeq(name, 1, last - 1) ELSE name

\* load_mht(path) of src/script/import.py, as one function of the bytes at
\* path and of path: the code of parse_mht_to_html with its own exception
\* message, which names the path, and path.stem as the title fallback.
load_mht(parts, path) ==
  LET st == Walk(parts)
  IN IF st.raised # None THEN RaiseLookupError(st.raised)
     ELSE IF NotHtmlPart(st.html_part) THEN Raised("ValueError", "No HTML part found in", path)
     ELSE Returned(html_to_body(
            SoupToStr(Rehydrate(BeautifulSoup(st.html_part), BuildSrcMap(st.resources))),
            PathStem(path)))

\* load_html_file(path): html_to_body(path.read_text(), path.stem)
load_html_file(text, path) == Returned(html_to_body(text, PathStem(path)))

(***************************************************************************)
(* The inputs of the model                                                 *)
(***************************************************************************)

\* Bounds of the model.
MaxRes == 2      \* resource parts of an archive
MaxTags == 2     \* elements of an HTML document
MaxFiles == 3    \* files of a batch

\* All sequences over S of length at most n.
RECURSIVE SeqsUpTo(_, _)
SeqsUpTo(S, n) ==
  IF n = 0 THEN {<<>>}
  ELSE LET shorter == SeqsUpTo(S, n - 1)
       IN shorter \cup {Append(q, x) : q \in {r \in shorter : Len(r) = n - 1}, x \in S}

RECURSIVE Flatten(_)
Flatten(seqs) == IF seqs = <<>> THEN <<>> ELSE Head(seqs) \o Flatten(Tail(seqs))

\* A part that declares no charset.
Part(ctype, payload, cid, loc, text) ==
  [ctype |-> ctype, payload |-> payload, cid |-> cid, loc |-> loc, text |-> text,
   charset |-> None]

\* The root container of an archive, as msg.walk() yields it first.
RootPart == Part(MultipartRelated, NoBytes, None, None, <<>>)

\* A text/html part without identifiers; its bytes decode to text.
HtmlPart(text) ==
  Part(TextHtml, IF text = <<>> THEN <<>> ELSE <<60>>, None, None, text)

\* A text/html part that declares a charset.
HtmlPartIn(text, charset) == [HtmlPart(text) EXCEPT !.charset = charset]

\* Content-ID and Content-Location header values, and src values.
Cid_a == <<"<", "a", ">">>
Cid_a20b == <<"<", "a", "%", "2", "0", "b", ">">>
Loc_dn == <<"d", "/", "n">>
Loc_en == <<"e", "/", "n">>
Loc_n == <<"n">>
Loc_20x == <<"%", "2", "0", "x">>
Src_cid_a == <<"c", "i", "d", ":", "a">>
Src_cid_a20b == <<"c", "i", "d", ":", "a", "%", "2", "0", "b">>
Src_n == <<"n">>
Src_pn == <<"p", "/", "n">>
Src_p20x == <<"p", "/", "%", "2", "0", "x">>
Src_http == <<"h", "t", "t", "p", ":", "/", "/", "h", "/", "z">>
N_alt == <<"a", "l", "t">>
N_p == <<"p">>
N_script == <<"s", "c", "r", "i", "p", "t">>
N_html == <<"h", "t", "m", "l">>
N_head == <<"h", "e", "a", "d">>

\* The resource parts archives are made of.  Two of them share a Content-ID,
\* two a Content-Location basename.
ResourceParts ==
  { Part(ImagePng, <<77>>, Cid_a, None, <<>>),
    Part(ImagePng, <<1, 2>>, Cid_a, Loc_en, <<>>),
    Part(ImagePng, <<77, 97, 110>>, Cid_a20b, None, <<>>),
    Part(ImagePng, <<255, 0, 128, 7>>, None, Loc_dn, <<>>),
    Part(ImageGif, <<>>, None, Loc_n, <<>>),
    Part(ImageGif, <<9>>, None, Loc_20x, <<>>) }

Img(src, q) == <<StartTok(N_img, <<RawAttr(N_src, src, q)>>, q = "\"")>>

\* The elements HTML documents are made of, each as the tokens that spell it.
Elements ==
  { Img(Src_cid_a, "\""),
    <<StartTok(N_img, <<RawAttr(<<"S", "R", "C">>, Src_cid_a20b, "'")>>, FALSE)>>,
    Img(Src_n, "\""),
    <<StartTok(<<"I", "M", "G">>, <<RawAttr(N_src, Src_pn, ""), RawAttr(N_alt, <<"x">>, "\"")>>, FALSE)>>,
    Img(Src_p20x, "\""),
    Img(Src_http, "\""),
    <<StartTok(N_p, <<RawAttr(N_alt, Src_n, "\"")>>, FALSE), TextTok(<<"h", "i">>), EndTok(N_p)>> }

Docs == {Flatten(es) : es \in SeqsUpTo(Elements, MaxTags)}

\* A document with a head, a title and a body around one image.
WrappedDoc ==
  <<StartTok(N_html, <<>>, FALSE), StartTok(N_head, <<>>, FALSE),
    StartTok(N_title, <<>>, FALSE), TextTok(<<" ", "T", " ">>), EndTok(N_title),
    EndTok(N_head), StartTok(N_body, <<>>, FALSE)>>
  \o Img(Src_cid_a, "\"") \o <<EndTok(N_body), EndTok(N_html)>>

\* Archives of the usual shape: the root, the HTML part, the resource parts.
UsualArchives ==
  {<<RootPart, HtmlPart(d)>> \o rs : d \in Docs \ {<<>>}, rs \in SeqsUpTo(ResourceParts, MaxRes)}

\* Archives without any text/html part.
NoHtmlArchives == {<<RootPart>> \o rs : rs \in SeqsUpTo(ResourceParts, MaxRes)}

\* Archives of other shapes: the HTML part after a resource, an empty first
\* HTML part, a second text/html part that carries an identifier, a part
\* without identifiers, a root container that carries a Content-Location, a
\* document with a src found after normalization, one found by its basename
\* and one not found.
OtherArchives ==
  { <<RootPart, Part(ImagePng, <<77>>, Cid_a, None, <<>>), HtmlPart(Img(Src_cid_a, "\""))>>,
    <<RootPart, HtmlPart(<<>>), HtmlPart(Img(Src_cid_a, "\""))>>,
    <<RootPart, HtmlPart(Img(Src_n, "\"")),
      Part(TextHtml, <<60>>, None, Loc_n, Img(Src_cid_a, "\""))>>,
    <<RootPart, Part(ImagePng, <<77>>, None, None, <<>>), HtmlPart(WrappedDoc),
      Part(ImagePng, <<77>>, Cid_a, None, <<>>)>>,
    <<Part(MultipartRelated, NoBytes, None, Loc_n, <<>>), HtmlPart(Img(Src_n, "\""))>>,
    <<RootPart,
      HtmlPart(Img(<<"%", "4", "3", "i", "d", ":", "a", "%", "5", "C", "b">>, "\"")
               \o Img(Src_pn, "'") \o Img(Src_http, "\"")),
      Part(ImageGif, <<9>>, None, <<"%", "2", "0", "c", "i", "d", ":", "a", "/", "b">>, <<>>),
      Part(ImagePng, <<77>>, None, Loc_n, <<>>)>> }

\* Documents around the title and the body: a title without text, a title of
\* blanks, a body without a title and with an element before it, a title
\* without a body.  The content of a title is character data.
TitledDocs ==
  { <<StartTok(N_title, <<>>, FALSE), EndTok(N_title)>> \o Img(Src_cid_a, "'"),
    <<StartTok(N_title, <<>>, FALSE), TextTok(<<" ", " ">>), EndTok(N_title)>>
      \o Img(Src_http, "\""),
    <<StartTok(N_p, <<>>, FALSE), TextTok(<<"o", "u", "t">>), EndTok(N_p),
      StartTok(<<"B", "O", "D", "Y">>, <<RawAttr(N_alt, <<"x">>, "'")>>, FALSE)>>
      \o Img(Src_cid_a, "'") \o <<EndTok(N_body)>>,
    <<StartTok(<<"T", "i", "t", "l", "e">>, <<>>, FALSE), TextTok(<<"\n", "T", " ", "U", "\t">>),
      EndTok(N_title)>> \o Img(Src_cid_a, "") }

\* Archives whose HTML part is one of these documents.
TitledArchives == {<<RootPart, HtmlPart(d), Part(ImagePng, <<77>>, Cid_a, None, <<>>)>> : d \in TitledDocs}

\* Texts for the normalizer: escapes that decode to blanks, to a backslash, to
\* a letter of "cid:" and to a percent sign, blanks around the text,
\* backslashes, "cid:" in several letter cases, incomplete escapes, and the
\* normal forms of some of them.
NormTexts ==
  { <<"%", "2", "0", "x", "%", "2", "0">>,
    <<" ", "a", "\\", "b", " ">>,
    <<"C", "I", "D", ":", "A">>,
    <<"%", "4", "3", "i", "d", ":", "a", "%", "5", "C", "b">>,
    <<" ", "C", "i", "d", ":", "%", "6", "1", " ">>,
    <<"%", "2", "5", "2", "0", "x">>,
    <<"%", "z", "z", "%", "4">>,
    <<"c", "i", "d">>,
    <<"a", "/", "b">>,
    <<"x">>,
    <<"c", "i", "d", ":", "a">>,
    <<"c", "i", "d", ":", "a", "/", "b">>,
    <<"\\", "c", "I", "d", ":", "a">>,
    <<"%", "2", "0", "c", "i", "d", ":", "a", "/", "b">> }

\* Archives with one image whose src is one of these texts and one resource
\* whose Content-Location (or Content-ID, in brackets) is one of them.
NormArchives ==
  {<<RootPart, HtmlPart(Img(v, "\"")), Part(ImageGif, <<9>>, None, w, <<>>)>> :
     v \in NormTexts, w \in NormTexts}
  \cup {<<RootPart, HtmlPart(Img(v, "\"")), Part(ImageGif, <<9>>, <<"<">> \o w \o <<">">>, None, <<>>)>> :
          v \in NormTexts, w \in NormTexts}

\* A document whose bytes the charset cannot decode everywhere: its text
\* holds the replacement character.
LossyDoc ==
  <<StartTok(N_p, <<>>, FALSE), TextTok(<<"a", "U+FFFD", "b">>), EndTok(N_p)>>
  \o Img(Src_cid_a, "\"")

\* Archives whose HTML part declares a charset: text encodings, a name no
\* codec is registered for, a codec that is not a text encoding; then one
\* whose second text/html part declares the unknown name.
CharsetArchives ==
  {<<RootPart, HtmlPartIn(d, c)>> \o rs :
     d \in {LossyDoc, WrappedDoc}, c \in {Cs_utf8, Cs_cp1251, Cs_unknown, Cs_hex},
     rs \in SeqsUpTo({Part(ImagePng, <<77>>, Cid_a, None, <<>>)}, 1)}
  \cup {<<RootPart, HtmlPart(LossyDoc), [HtmlPartIn(LossyDoc, Cs_unknown) EXCEPT !.loc = Loc_n]>>}

\* Archives with two resources located in different directories under one
\* file name, in both part orders, and a document of one or two images whose
\* src is one of the two locations, the bare file name, or the file name in a
\* third directory.
PrecedenceArchives ==
  {<<RootPart, HtmlPart(Flatten(es))>> \o rs :
     es \in SeqsUpTo({Img(Loc_dn, "\""), Img(Loc_en, "\""), Img(Src_n, "\""), Img(Src_pn, "\"")}, 2)
           \ {<<>>},
     rs \in { <<Part(ImagePng, <<255, 0, 128, 7>>, None, Loc_dn, <<>>),
                Part(ImageGif, <<5>>, None, Loc_en, <<>>)>>,
              <<Part(ImageGif, <<5>>, None, Loc_en, <<>>),
                Part(ImagePng, <<255, 0, 128, 7>>, None, Loc_dn, <<>>)>> }}

Archives ==
  UsualArchives \cup NoHtmlArchives \cup OtherArchives \cup NormArchives \cup CharsetArchives
  \cup PrecedenceArchives

File_f == <<"f", ".", "m", "h", "t">>
File_ab == <<"a", ".", "b", ".", "m", "h", "t">>
File_noext == <<"n", "o", "t", "e">>
File_dot == <<".", "m", "h", "t">>

\* The file names a call is given: one dot, two dots, no dot, nothing before
\* the dot.
FileNames == {File_f, File_ab, File_noext, File_dot}

(***************************************************************************)
(* Spec: one call parse_mht_to_html(data, filename), statement by          *)
(* statement                                                               *)
(***************************************************************************)

\* The variables of the batch callers and of strip_data_uri_images, which a
\* single call of parse_mht_to_html neither reads nor writes.
callerVars == <<uploaded, fileIdx, pages, imported, errors, shown>>
stripVars == <<html, stripped>>
engineVars == <<data, filename, html_part, resources, src_map, soup0, soup, outcome, idx>>

CallersIdle ==
  /\ uploaded = <<>> /\ fileIdx = 0 /\ pages = <<>>
  /\ imported = 0 /\ errors = <<>> /\ shown = <<>>
StripIdle == html = <<>> /\ stripped = NoneHtml

\* The variables of the runs of main() of app.py, which the calls above
\* neither read nor write.
uiVars == <<store, ui, calls>>
UIIdle == store = <<>> /\ ui = <<>> /\ calls = {}

Init ==
  /\ pc = "walk"
  /\ \/ data \in Archives /\ filename = File_f
     \/ data \in OtherArchives \cup TitledArchives /\ filename \in FileNames
  /\ html_part = NoneHtml
  /\ resources = <<>>
  /\ src_map = EmptyMap
  /\ soup0 = <<>>
  /\ soup = <<>>
  /\ outcome = NoOutcome
  /\ idx = 1
  /\ CallersIdle
  /\ StripIdle
  /\ UIIdle

\* for part in msg.walk(): one iteration (app.py 369-379).
WalkPart ==
  /\ pc = "walk"
  /\ idx <= Len(data)
  /\ LET st == WalkStep([html_part |-> html_part, resources |-> resources, raised |-> None],
                        data[idx])
     IN /\ st.raised = None
        /\ html_part' = st.html_part
        /\ resources' = st.resources
  /\ idx' = idx + 1
  /\ UNCHANGED <<pc, data, filename, src_map, soup0, soup, outcome>>
  /\ UNCHANGED <<callerVars, stripVars, uiVars>>

\* The same iteration when .decode(charset, errors="replace") raises
\* LookupError (app.py 373): nothing in parse_mht_to_html catches it.
RaiseUnknownCharset ==
  /\ pc = "walk"
  /\ idx <= Len(data)
  /\ LET st == WalkStep([html_part |-> html_part, resources |-> resources, raised |-> None],
                        data[idx])
     IN /\ st.raised # None
        /\ outcome' = RaiseLookupError(st.raised)
  /\ pc' = "raised"
  /\ UNCHANGED <<data, filename, html_part, resources, src_map, soup0, soup, idx>>
  /\ UNCHANGED <<callerVars, stripVars, uiVars>>

\* if not html_part: raise ValueError(...) (app.py 381-382).
RaiseNoHtml ==
  /\ pc = "walk"
  /\ idx > Len(data)
  /\ NotHtmlPart(html_part)
  /\ outcome' = RaiseNoHtmlApp
  /\ pc' = "raised"
  /\ UNCHANGED <<data, filename, html_part, resources, src_map, soup0, soup, idx>>
  /\ UNCHANGED <<callerVars, stripVars, uiVars>>

\* src_map = {} (app.py 391), reached when html_part is true.
StartMap ==
  /\ pc = "walk"
  /\ idx > Len(data)
  /\ ~NotHtmlPart(html_part)
  /\ src_map' = EmptyMap
  /\ pc' = "map"
  /\ idx' = 1
  /\ UNCHANGED <<data, filename, html_part, resources, soup0, soup, outcome>>
  /\ UNCHANGED <<callerVars, stripVars, uiVars>>

\* for ctype, content, cid, loc in resources: one iteration (app.py 392-421).
RegisterResource ==
  /\ pc = "map"
  /\ idx <= Len(resources)
  /\ src_map' = Register(src_map, resources[idx])
  /\ idx' = idx + 1
  /\ UNCHANGED <<pc, data, filename, html_part, resources, soup0, soup, outcome>>
  /\ UNCHANGED <<callerVars, stripVars, uiVars>>

\* soup = BeautifulSoup(html_part, "html.parser") (app.py 423).
ParseHtml ==
  /\ pc = "map"
  /\ idx > Len(resources)
  /\ soup' = BeautifulSoup(html_part)
  /\ soup0' = BeautifulSoup(html_part)
  /\ pc' = "rewrite"
  /\ idx' = 1
  /\ UNCHANGED <<data, filename, html_part, resources, src_map, outcome>>
  /\ UNCHANGED <<callerVars, stripVars, uiVars>>

\* for tag in soup.find_all(src=True): one iteration (app.py 424-432).
RewriteTag ==
  /\ pc = "rewrite"
  /\ idx <= Len(FindAllSrc(soup0))
  /\ soup' = [soup EXCEPT ![FindAllSrc(soup0)[idx]] = RewriteSrc(@, src_map)]
  /\ idx' = idx + 1
  /\ UNCHANGED <<pc, data, filename, html_part, resources, src_map, soup0, outcome>>
  /\ UNCHANGED <<callerVars, stripVars, uiVars>>

\* title, body_html = html_to_body(str(soup), ...); return (app.py 434-435).
ReturnBody ==
  /\ pc = "rewrite"
  /\ idx > Len(FindAllSrc(soup0))
  /\ outcome' = Returned(html_to_body(SoupToStr(soup), RsplitDot(filename)))
  /\ pc' = "returned"
  /\ UNCHANGED <<data, filename, html_part, resources, src_map, soup0, soup, idx>>
  /\ UNCHANGED <<callerVars, stripVars, uiVars>>

Next ==
  \/ WalkPart
  \/ RaiseUnknownCharset
  \/ RaiseNoHtml
  \/ StartMap
  \/ RegisterResource
  \/ ParseHtml
  \/ RewriteTag
  \/ ReturnBody

Spec == Init /\ [][Next]_vars

(***************************************************************************)
(* Properties of one call (checked under Spec)                             *)
(***************************************************************************)

Range(q) == {q[i] : i \in 1..Len(q)}

\* The map building loop is over: src_map is the finished map.
MapBuilt == pc \in {"rewrite", "returned"}

\* The src of element k as parsed, and in the tree that is serialized.
SrcBefore(k) == GetAttr(soup0[k], N_src)
SrcAfter(k) == GetAttr(soup[k], N_src)

\* The positions of the src-bearing elements of the parsed tree.
SrcElements == {k \in 1..Len(soup0) : HasAttr(soup0[k], N_src)}

\* The data URI of resource i: "data:" + contentType + ";base64," + base64(payload).
DataUriOf(i) == DataUrl(resources[i].ctype, resources[i].content)

\* Resource i shares none of its keys with another resource of the archive.
SharesNoKey(i) ==
  \A j \in 1..Len(resources) :
     j # i => Range(ResourceKeys(resources[j])) \cap Range(ResourceKeys(resources[i])) = {}

\* The identifier X of a Content-ID header "<X>".
IsBracketed(h) == Len(h) >= 2 /\ h[1] = "<" /\ h[Len(h)] = ">"
Unbracketed(h) == SubSeq(h, 2, Len(h) - 1)

\* The payload a data URI decodes to: base64-decode what follows the comma.
DecodedPayload(uri) ==
  LET commas == {i \in 1..Len(uri) : uri[i] = ","}
      first == CHOOSE i \in commas : \A j \in commas : i <= j
  IN b64decode(SubSeq(uri, first + 1, Len(uri)))

\* C1: in the output of a call that returned, every element whose src is
\* "cid:X" has the data URI of the resource with Content-ID <X> as its src, and
\* that URI decodes to the payload of the resource, for any identifier X
\* (stated for a resource that shares no key with another one, so that the
\* overwriting of C7 plays no part).
C1_CidResolves ==
  pc = "returned" =>
    \A i \in 1..Len(resources) :
       (Truthy(resources[i].cid) /\ IsBracketed(resources[i].cid) /\ SharesNoKey(i)) =>
         \A k \in SrcElements :
            SrcBefore(k) = CidPrefix \o Unbracketed(resources[i].cid) =>
              /\ SrcAfter(k) = DataUriOf(i)
              /\ DecodedPayload(SrcAfter(k)) = resources[i].content

\* Element k is a dangling reference: neither its normalized src nor the
\* basename of it is a key of the finished map.
Dangling(k) ==
  /\ norm(SrcBefore(k)) \notin DOMAIN src_map
  /\ basename(norm(SrcBefore(k))) \notin DOMAIN src_map

\* The position in the returned body_html of element k of the tree (the body is
\* the body element when there is one, the whole document otherwise), 0 when
\* the element is outside the body.
OutPos(k) ==
  LET b == FirstStart(soup, N_body)
  IN IF b = 0 THEN k
     ELSE IF k >= b /\ k <= ClosingEnd(soup, b) THEN k - b + 1
     ELSE 0

\* The src value the returned body_html spells for element k of the tree.
OutSrc(k) == GetAttr(BeautifulSoup(outcome.body)[OutPos(k)], N_src)

\* C2: an element whose src matches no resource (normalized src and its
\* basename both miss) keeps its src value, in the tree and in the returned
\* body; no exception comes of it: a call that raises does so in the walk or
\* on "not html_part", before the map and the tree exist.
C2_DanglingSrcKept ==
  /\ MapBuilt =>
       \A k \in SrcElements :
          (Dangling(k) /\ (pc = "returned" \/ k \in Range(SubSeq(FindAllSrc(soup0), 1, idx - 1))))
            => SrcAfter(k) = SrcBefore(k)
  /\ pc = "returned" =>
       /\ outcome.kind = "ok"
       /\ \A k \in SrcElements :
             (Dangling(k) /\ OutPos(k) > 0) => OutSrc(k) = SrcBefore(k)
  /\ pc = "raised" => NotHtmlPart(html_part) /\ src_map = EmptyMap /\ soup0 = <<>>

C2_Witness ==
  /\ pc = "returned"
  /\ Len(resources) > 0
  /\ \E k \in SrcElements : Dangling(k) /\ SrcBefore(k) = Src_http /\ OutSrc(k) = Src_http
  /\ \E k \in SrcElements : ~Dangling(k)

\* The archive holds no text/html part.
NoTextHtmlPart(parts) == \A i \in 1..Len(parts) : parts[i].ctype # TextHtml

\* C3: a call on an archive without a text/html part ends in the error raised
\* by "if not html_part": it returns no (title, body), never goes on to build a
\* map or a tree from placeholder HTML, and nothing runs after the raise.
C3_NoHtmlPartRaises ==
  NoTextHtmlPart(data) =>
    /\ pc \in {"walk", "raised"}
    /\ html_part = NoneHtml /\ soup = <<>> /\ soup0 = <<>>
    /\ (pc = "walk" => outcome = NoOutcome /\ ENABLED Next)
    /\ (pc = "raised" =>
          /\ outcome.kind = "error" /\ outcome.exc = "ValueError"
          /\ outcome.title = <<>> /\ outcome.body = <<>>
          /\ ~ENABLED Next)
    /\ parse_mht_to_html(data, filename).kind = "error"
    /\ load_mht(data, filename).kind = "error"

C3_Witness ==
  /\ pc = "raised"
  /\ NoTextHtmlPart(data)
  /\ Len(resources) = MaxRes

\* A bare file name: not empty, no slash.
IsBareName(n) == n # <<>> /\ "/" \notin Range(n)

\* The Content-Location of resource i, without surrounding blanks and brackets.
LocOf(i) == stripChars(strip(resources[i].loc), AngleBrackets)

\* The only resource of the archive has a Content-Location and no Content-ID.
OnlyLocResource == Len(resources) = 1 /\ Truthy(resources[1].loc) /\ ~Truthy(resources[1].cid)

\* The two cases of C6 for a file name n: the resource is located at d/n and
\* the src is n; the resource is located at n and the src is a path p/n that
\* is not a key.
BasenameCase1(k, n) ==
  /\ "/" \in Range(LocOf(1)) /\ basename(LocOf(1)) = n /\ IsBareName(n)
  /\ SrcBefore(k) = n
BasenameCase2(k, n) ==
  /\ LocOf(1) = n /\ IsBareName(n)
  /\ "/" \in Range(SrcBefore(k)) /\ basename(SrcBefore(k)) = n
  /\ SrcBefore(k) \notin DOMAIN src_map

\* C6 as claimed: in both cases the element gets the data URI of the resource.
C6_BasenameMatch ==
  (pc = "returned" /\ OnlyLocResource) =>
    \A k \in SrcElements :
       (BasenameCase1(k, SrcBefore(k)) \/ BasenameCase2(k, LocOf(1)))
         => SrcAfter(k) = DataUriOf(1)

\* C6 amended: the same, for a file name n that the normalizer leaves
\* unchanged (norm(n) = n).
C6_BasenameMatchStableName ==
  (pc = "returned" /\ OnlyLocResource) =>
    \A k \in SrcElements :
       \/ BasenameCase1(k, SrcBefore(k)) /\ norm(SrcBefore(k)) = SrcBefore(k)
       \/ BasenameCase2(k, LocOf(1)) /\ norm(LocOf(1)) = LocOf(1)
       => SrcAfter(k) = DataUriOf(1)

C6_Witness ==
  /\ pc = "returned"
  /\ OnlyLocResource
  /\ \E k \in SrcElements :
        /\ BasenameCase2(k, LocOf(1)) /\ norm(LocOf(1)) = LocOf(1)
        /\ norm(SrcBefore(k)) \notin DOMAIN src_map
        /\ SrcAfter(k) = DataUriOf(1)

\* The resources among the first n that register key, in part order.
Registrants(key, n) == {i \in 1..n : key \in Range(ResourceKeys(resources[i]))}

\* The map holds exactly the keys of the first n resources, each mapped to the
\* data URI of the last of them that registers it.
LastWriteWins(n) ==
  /\ DOMAIN src_map = UNION {Range(ResourceKeys(resources[i])) : i \in 1..n}
  /\ \A key \in DOMAIN src_map :
        LET last == CHOOSE i \in Registrants(key, n) : \A j \in Registrants(key, n) : i >= j
        IN src_map[key] = DataUriOf(last)

\* C7: when several resources register one key, the finished map sends the key
\* to the data URI of the one that is later in part order (and so after every
\* iteration, for the resources registered so far); building the map raises
\* nothing.
C7_LastWriteWins ==
  /\ pc = "map" => LastWriteWins(idx - 1) /\ outcome = NoOutcome
  /\ MapBuilt => LastWriteWins(Len(resources))

C7_Witness ==
  /\ MapBuilt
  /\ \E i, j \in 1..Len(resources) :
        /\ i < j
        /\ DataUriOf(i) # DataUriOf(j)
        /\ \E key \in Range(ResourceKeys(resources[i])) \cap Range(ResourceKeys(resources[j])) :
              src_map[key] = DataUriOf(j)

\* Node b is node a up to the value of its src attribute.
SameButSrc(a, b) ==
  /\ a.t = b.t /\ a.name = b.name /\ a.data = b.data
  /\ Len(a.attrs) = Len(b.attrs)
  /\ \A j \in 1..Len(a.attrs) :
        /\ a.attrs[j].n = b.attrs[j].n
        /\ a.attrs[j].n # N_src => a.attrs[j].v = b.attrs[j].v

\* C8: the tree that is serialized is the parsed tree up to src values: same
\* sequence of elements, same attributes other than src, same text; and a src
\* value that differs is a data URI of the resource map.
C8_RewriteFrame ==
  pc \in {"rewrite", "returned"} =>
    /\ Len(soup) = Len(soup0)
    /\ \A k \in 1..Len(soup0) :
          /\ SameButSrc(soup0[k], soup[k])
          /\ SrcAfter(k) # SrcBefore(k) =>
               /\ HasAttr(soup0[k], N_src)
               /\ \E key \in DOMAIN src_map : SrcAfter(k) = src_map[key]

C8_Witness ==
  /\ pc = "returned"
  /\ \E k \in SrcElements : SrcAfter(k) # SrcBefore(k) /\ Len(soup0[k].attrs) > 1
  /\ \E k \in 1..Len(soup0) : soup0[k].t = "text"

\* The text of the element opened at position i: the character data between
\* its start tag and its end tag, in document order.
RECURSIVE TextBetween(_, _, _)
TextBetween(tree, i, j) ==
  IF i > j THEN <<>>
  ELSE (IF tree[i].t = "text" THEN tree[i].data ELSE <<>>) \o TextBetween(tree, i + 1, j)

ElementText(tree, i) == TextBetween(tree, i + 1, ClosingEnd(tree, i))

\* A file name minus its extension: what stands before the last dot, the whole
\* name when it has no dot.
NameMinusExtension(name) ==
  IF "." \notin Range(name) THEN name
  ELSE CHOOSE stem \in {SubSeq(name, 1, n) : n \in 0..Len(name)} :
         \E ext \in {SubSeq(name, n, Len(name)) : n \in 1..(Len(name) + 1)} :
            "." \notin Range(ext) /\ name = stem \o <<".">> \o ext

\* C11: the (title, body) a call returns is html_to_body of the serialized
\* tree and of the file name minus its extension: the title is the trimmed text
\* of the title element when there is one and its text is not empty (a text of
\* blanks is not empty: its trimmed text is the empty title), the fallback
\* otherwise; the body is the serialized body element when there is one, the
\* whole serialized document otherwise.
C11_TitleAndBody ==
  pc = "returned" =>
    LET text == SoupToStr(soup)
        tree == BeautifulSoup(text)
        t == FirstStart(tree, N_title)
        b == FirstStart(tree, N_body)
    IN /\ outcome.kind = "ok"
       /\ outcome.title =
            (IF t # 0 /\ ElementText(tree, t) # <<>>
             THEN stripChars(ElementText(tree, t), Whitespace)
             ELSE NameMinusExtension(filename))
       /\ outcome.body =
            (IF b # 0 THEN SoupToStr(SubSeq(tree, b, ClosingEnd(tree, b))) ELSE text)

\* A title with blanks around its text, inside a document with a body that
\* is not the whole document.
C11_Witness ==
  /\ pc = "returned"
  /\ filename = File_ab
  /\ LET t == FirstStart(soup, N_title)
     IN /\ t # 0
        /\ outcome.title # ElementText(soup, t)
        /\ outcome.title = <<"T">>
  /\ FirstStart(soup, N_body) > 1
  /\ outcome.body # SoupToStr(soup)
  /\ Len(outcome.body) < Len(soup)

\* C11, the fallbacks: a title element without text and a document without a
\* body, under a file name with two dots.
C11_WitnessFallback ==
  /\ pc = "returned"
  /\ filename = File_ab
  /\ FirstStart(soup, N_title) # 0
  /\ ElementText(soup, FirstStart(soup, N_title)) = <<>>
  /\ FirstStart(soup, N_body) = 0
  /\ outcome.title = <<"a", ".", "b">>
  /\ outcome.body = SoupToStr(soup)

\* C11, a title of blanks: the title is the empty text, not the fallback.
C11_WitnessBlankTitle ==
  /\ pc = "returned"
  /\ filename = File_f
  /\ FirstStart(soup, N_title) # 0
  /\ ElementText(soup, FirstStart(soup, N_title)) = <<" ", " ">>
  /\ outcome.title = <<>>

\* The four steps of the normalizer, each on its own.
PercentDecoded(t) == unquote(t)
Trimmed(t) == stripChars(t, {" ", "\t", "\n", "\r", "\f"})
Slashed(t) == [i \in 1..Len(t) |-> IF t[i] = "\\" THEN "/" ELSE t[i]]
CidCanonical(t) ==
  IF Len(t) >= 4 /\ t[1] \in {"c", "C"} /\ t[2] \in {"i", "I"} /\ t[3] \in {"d", "D"} /\ t[4] = ":"
  THEN <<"c", "i", "d", ":">> \o SubSeq(t, 5, Len(t))
  ELSE t

\* The steps in the order of the claim.
Normalized(t) == CidCanonical(Slashed(Trimmed(PercentDecoded(t))))

\* The texts the call applies norm to: the src values, the Content-IDs without
\* their brackets, the Content-Locations without blanks and brackets, and the
\* basenames of the normalized locations.
NormArguments ==
  {SrcBefore(k) : k \in SrcElements}
  \cup {stripChars(resources[i].cid, AngleBrackets) : i \in {j \in 1..Len(resources) : Truthy(resources[j].cid)}}
  \cup {LocOf(i) : i \in {j \in 1..Len(resources) : Truthy(resources[j].loc)}}
  \cup {basename(Normalized(LocOf(i))) : i \in {j \in 1..Len(resources) : Truthy(resources[j].loc)}}

\* C12: norm is percent-decoding, then trimming, then backslash to slash, then
\* the lower-case "cid:" prefix, on every text the call applies it to (and the
\* empty text for None); the key looked up for a src and the keys registered
\* for a Content-ID, a Content-Location and its basename are values of this
\* one function.
C12_NormSteps ==
  /\ norm(None) = <<>>
  /\ \A t \in NormArguments : norm(t) = Normalized(t)
  /\ MapBuilt =>
       \A i \in 1..Len(resources) :
          /\ Truthy(resources[i].cid) =>
               Normalized(stripChars(resources[i].cid, AngleBrackets)) \in DOMAIN src_map
          /\ Truthy(resources[i].loc) =>
               /\ Normalized(LocOf(i)) \in DOMAIN src_map
               /\ basename(Normalized(LocOf(i))) # <<>> =>
                    Normalized(basename(Normalized(LocOf(i)))) \in DOMAIN src_map
  /\ pc = "returned" =>
       \A k \in SrcElements :
          Normalized(SrcBefore(k)) \in DOMAIN src_map =>
            SrcAfter(k) = src_map[Normalized(SrcBefore(k))]

\* A src that every step changes, resolved through the Content-Location of a
\* resource that is spelled differently and has the same normal form.
C12_Witness ==
  /\ pc = "returned"
  /\ \E k \in SrcElements :
        LET t == SrcBefore(k)
        IN /\ PercentDecoded(t) # t
           /\ Slashed(PercentDecoded(t)) # PercentDecoded(t)
           /\ CidCanonical(Slashed(PercentDecoded(t))) # Slashed(PercentDecoded(t))
           /\ Len(resources) = 1 /\ Truthy(resources[1].loc)
           /\ LocOf(1) # t
           /\ Trimmed(PercentDecoded(LocOf(1))) # PercentDecoded(LocOf(1))
           /\ Normalized(LocOf(1)) = Normalized(t)
           /\ SrcAfter(k) = DataUriOf(1)

\* C12, the order of the first two steps: a text whose escapes decode to
\* blanks at its ends is trimmed after it is decoded.
C12_WitnessDecodeThenTrim ==
  /\ pc = "returned"
  /\ \E k \in SrcElements :
        /\ Trimmed(SrcBefore(k)) = SrcBefore(k)
        /\ norm(SrcBefore(k)) # PercentDecoded(SrcBefore(k))
        /\ norm(SrcBefore(k)) = <<"x">>

\* Element k is resolvable: its normalized src, or the basename of it, is a
\* key of the finished map; Mapped(k) is the data URI the map holds for it.
Resolvable(k) ==
  \/ Normalized(SrcBefore(k)) \in DOMAIN src_map
  \/ basename(Normalized(SrcBefore(k))) \in DOMAIN src_map
Mapped(k) ==
  IF Normalized(SrcBefore(k)) \in DOMAIN src_map THEN src_map[Normalized(SrcBefore(k))]
  ELSE src_map[basename(Normalized(SrcBefore(k)))]

\* C13: in the body a call returns, the src of every resolvable element is the
\* data URI the map holds for it, a "data:" URI of a resource of the archive
\* and no longer the reference, and the src of every other element is the one
\* of the HTML part.
C13_OutputInvariant ==
  pc = "returned" =>
    /\ outcome.kind = "ok"
    /\ \A k \in SrcElements :
          OutPos(k) > 0 =>
            IF Resolvable(k)
            THEN /\ OutSrc(k) = Mapped(k)
                 /\ \E i \in 1..Len(resources) : OutSrc(k) = DataUriOf(i)
                 /\ SubSeq(OutSrc(k), 1, 5) = <<"d", "a", "t", "a", ":">>
                 /\ OutSrc(k) # SrcBefore(k)
            ELSE OutSrc(k) = SrcBefore(k)

\* One document with a src found after normalization, one found by its
\* basename and one that is not found.
C13_Witness ==
  /\ pc = "returned"
  /\ \E k \in SrcElements :
        /\ SrcBefore(k) \notin DOMAIN src_map
        /\ Normalized(SrcBefore(k)) \in DOMAIN src_map
        /\ OutSrc(k) = DataUriOf(1)
  /\ \E k \in SrcElements :
        /\ Normalized(SrcBefore(k)) \notin DOMAIN src_map
        /\ Resolvable(k)
        /\ OutSrc(k) = DataUriOf(2)
  /\ \E k \in SrcElements : ~Resolvable(k) /\ OutSrc(k) = SrcBefore(k)

\* C14: the error of a missing HTML part is raised only for an archive that
\* holds no text/html part: a call on an archive with a text/html part, also
\* one whose text is empty, never ends in that error (the ValueError of
\* "if not html_part"), in parse_mht_to_html and in load_mht.
C14_RaisedOnlyWithoutHtmlPart ==
  /\ (pc = "raised" /\ outcome.exc = "ValueError") => NoTextHtmlPart(data)
  /\ (pc \in {"raised", "returned"} /\ ~NoTextHtmlPart(data)) =>
       /\ outcome.kind = "ok" \/ outcome.exc # "ValueError"
       /\ load_mht(data, filename).exc # "ValueError"

\* The keys the claim gives to a Content-ID: with cidClean the Content-ID
\* without its enclosing angle brackets, "cid:" + cidClean, "CID:" + cidClean,
\* cidClean and normalize("cid:" + cidClean).
ClaimedCidKeys(cid) ==
  LET cidClean == stripChars(cid, {"<", ">"})
  IN { <<"c", "i", "d", ":">> \o cidClean,
       <<"C", "I", "D", ":">> \o cidClean,
       cidClean,
       Normalized(<<"c", "i", "d", ":">> \o cidClean) }

\* The resources the map building loop has gone through.
Registered == IF pc = "map" THEN 1..(idx - 1) ELSE IF MapBuilt THEN 1..Len(resources) ELSE {}

\* C15: a resource with a Content-ID is registered under each of the four
\* claimed keys, and under no other key when it has no Content-Location (seen
\* on the map of an archive with one resource), each key holding its data URI.
C15_CidKeysRegistered ==
  \A i \in Registered :
     Truthy(resources[i].cid) =>
       /\ ClaimedCidKeys(resources[i].cid) \subseteq DOMAIN src_map
       /\ (Len(resources) = 1 /\ ~Truthy(resources[i].loc)) =>
            /\ DOMAIN src_map = ClaimedCidKeys(resources[i].cid)
            /\ \A key \in DOMAIN src_map : src_map[key] = DataUriOf(i)

\* The part of C15 that the code has: the first three keys, and the fourth
\* when the normalizer leaves the Content-ID unchanged.
C15_CidKeysOfStableId ==
  \A i \in Registered :
     Truthy(resources[i].cid) =>
       LET cidClean == stripChars(resources[i].cid, {"<", ">"})
       IN /\ {<<"c", "i", "d", ":">> \o cidClean, <<"C", "I", "D", ":">> \o cidClean, cidClean}
               \subseteq DOMAIN src_map
          /\ Normalized(cidClean) = cidClean => ClaimedCidKeys(resources[i].cid) \subseteq DOMAIN src_map

\* A multipart container: its content type begins with "multipart/".
IsContainer(part) ==
  Len(part.ctype) >= 10
  /\ SubSeq(part.ctype, 1, 10) = <<"m", "u", "l", "t", "i", "p", "a", "r", "t", "/">>

\* The position of the first text/html part in walk order, 0 when there is none.
FirstHtmlPart(parts) ==
  LET hits == {i \in 1..Len(parts) : parts[i].ctype = <<"t", "e", "x", "t", "/", "h", "t", "m", "l">>}
  IN IF hits = {} THEN 0 ELSE CHOOSE i \in hits : \A j \in hits : i <= j

\* The resource candidates of the claim among the first n parts: the leaf
\* parts other than the designated HTML part that carry a Content-ID or a
\* Content-Location, in part order, as (ctype, payload, cid, loc).
RECURSIVE ClaimedCandidates(_, _)
ClaimedCandidates(parts, n) ==
  IF n = 0 THEN <<>>
  ELSE LET part == parts[n]
           earlier == ClaimedCandidates(parts, n - 1)
       IN IF /\ ~IsContainer(part)
             /\ n # FirstHtmlPart(parts)
             /\ (part.cid \notin {None, <<>>} \/ part.loc \notin {None, <<>>})
          THEN Append(earlier, [ctype |-> part.ctype, content |-> part.payload,
                                cid |-> part.cid, loc |-> part.loc])
          ELSE earlier

\* The parts the walk loop has gone through.
Walked == IF pc = "walk" THEN idx - 1 ELSE Len(data)

\* C16: the resources the walk collects are exactly the candidates of the
\* claim, in part order: no multipart container, no part without identifier,
\* and a later text/html part when it carries an identifier.
C16_ResourceCandidates == resources = ClaimedCandidates(data, Walked)

\* The part of C16 that the code has: the same, for archives whose multipart
\* containers carry neither a Content-ID nor a Content-Location.
C16_CandidatesOfBareContainers ==
  (\A i \in 1..Len(data) :
      IsContainer(data[i]) => data[i].cid \in {None, <<>>} /\ data[i].loc \in {None, <<>>})
    => resources = ClaimedCandidates(data, Walked)

\* The charset the designated HTML part is decoded with.
CharsetOfHtmlPart ==
  LET part == data[FirstHtmlPart(data)]
  IN IF part.charset \in {None, <<>>} THEN <<"u", "t", "f", "-", "8">> ELSE part.charset

\* C17: whatever charset the HTML part declares, decoding it raises nothing:
\* a call that raises has raised the error of the missing HTML part, and a
\* call on an archive whose HTML part has a text that is not empty returns a
\* (title, body) made of that text, replacement characters included.
C17_CharsetNeverFatal ==
  /\ pc = "raised" => outcome.exc = "ValueError"
  /\ (/\ pc \in {"raised", "returned"}
      /\ FirstHtmlPart(data) # 0
      /\ data[FirstHtmlPart(data)].text # <<>>) =>
       /\ outcome.kind = "ok"
       /\ html_part = data[FirstHtmlPart(data)].text

\* The part of C17 that the code has: the same when the charset names a text
\* encoding that Python knows (or is absent).
C17_KnownCharsetNeverFatal ==
  (FirstHtmlPart(data) # 0 /\ CharsetOfHtmlPart \in {Cs_utf8, Cs_cp1251}) =>
    /\ pc = "raised" => outcome.exc = "ValueError"
    /\ (pc \in {"raised", "returned"} /\ data[FirstHtmlPart(data)].text # <<>>) =>
         /\ outcome.kind = "ok"
         /\ html_part = data[FirstHtmlPart(data)].text

\* C18: the error a call raises for a missing HTML part says that the HTML
\* part is missing and carries the file name the call was given.
C18_ErrorNamesFile ==
  (pc = "raised" /\ outcome.exc = "ValueError") =>
    /\ outcome.msg = "No HTML part found in"
    /\ outcome.arg = filename

\* The part of C18 that the code has: the error of load_mht in
\* script/import.py says so and carries the path.
C18_ScriptErrorNamesFile ==
  (pc = "raised" /\ outcome.exc = "ValueError") =>
    /\ load_mht(data, filename).kind = "error"
    /\ load_mht(data, filename).msg = "No HTML part found in"
    /\ load_mht(data, filename).arg = filename

\* The archive has exactly two resources, i and j, located by Content-Location
\* only, in different directories under the same file name.
SameNameTwoDirs(i, j) ==
  /\ Len(resources) = 2 /\ i # j
  /\ resources[i].cid \in {None, <<>>} /\ resources[j].cid \in {None, <<>>}
  /\ resources[i].loc \notin {None, <<>>} /\ resources[j].loc \notin {None, <<>>}
  /\ "/" \in Range(LocOf(i)) /\ "/" \in Range(LocOf(j))
  /\ LocOf(i) # LocOf(j)
  /\ basename(LocOf(i)) = basename(LocOf(j))

\* C19: with resources at a/n and b/n, in either part order, an src equal to
\* one of the two locations gets the data URI of the resource at that
\* location; an src that is the bare name n, or a path with the file name n
\* that is not a key, gets the data URI of the later of the two.
C19_ExactBeforeBasename ==
  pc = "returned" =>
    \A i, j \in 1..Len(resources) :
       SameNameTwoDirs(i, j) =>
         \A k \in SrcElements :
            /\ SrcBefore(k) = LocOf(i) => SrcAfter(k) = DataUriOf(i)
            /\ (/\ basename(SrcBefore(k)) = basename(LocOf(i))
                /\ SrcBefore(k) \notin {LocOf(i), LocOf(j)}
                /\ (SrcBefore(k) = basename(LocOf(i)) \/ SrcBefore(k) \notin DOMAIN src_map))
                 => SrcAfter(k) = DataUriOf(IF i > j THEN i ELSE j)

\* One document against both locations where the resource of the first src
\* is the earlier part, so that the basename key holds the other resource.
C19_Witness ==
  /\ pc = "returned"
  /\ SameNameTwoDirs(1, 2)
  /\ DataUriOf(1) # DataUriOf(2)
  /\ src_map[basename(LocOf(1))] = DataUriOf(2)
  /\ \E k \in SrcElements : SrcBefore(k) = LocOf(1) /\ SrcAfter(k) = DataUriOf(1)
  /\ \E k \in SrcElements : SrcBefore(k) = LocOf(2) /\ SrcAfter(k) = DataUriOf(2)

\* C19, the shared key: the bare name and a path that is not a key get the
\* later resource.
C19_WitnessBasename ==
  /\ pc = "returned"
  /\ SameNameTwoDirs(1, 2)
  /\ \E k \in SrcElements : SrcBefore(k) = basename(LocOf(1)) /\ SrcAfter(k) = DataUriOf(2)
  /\ \E k \in SrcElements :
        /\ "/" \in Range(SrcBefore(k)) /\ SrcBefore(k) \notin DOMAIN src_map
        /\ SrcAfter(k) = DataUriOf(2)

\* The path main() of the script hands to load_mht for a file of the folder
\* it globs.
ScriptPath(name) ==
  <<"e", "x", "p", "o", "r", "t", "e", "d", "_", "p", "a", "g", "e", "s", "/">> \o name

\* A file name of the form <stem>.mht with a stem that is not empty.
IsMhtName(name) ==
  Len(name) > 4 /\ SubSeq(name, Len(name) - 3, Len(name)) = <<".", "m", "h", "t">>

\* C20: on one archive and one file name <stem>.mht, the call of
\* parse_mht_to_html in app.py (the run of this specification) and load_mht
\* of script/import.py both fail, with the same kind of exception, or both
\* return the same (title, body_html); the map and the tree of the run are the
\* ones load_mht computes.
C20_CopiesAgree ==
  IsMhtName(filename) =>
    LET script == load_mht(data, ScriptPath(filename))
    IN /\ pc = "raised" => script.kind = "error" /\ script.exc = outcome.exc
       /\ pc = "returned" =>
            /\ script.kind = "ok"
            /\ script.title = outcome.title
            /\ script.body = outcome.body
       /\ MapBuilt => src_map = BuildSrcMap(Walk(data).resources)
       /\ pc = "returned" =>
            soup = Rehydrate(BeautifulSoup(Walk(data).html_part), BuildSrcMap(Walk(data).resources))

\* A file name with two dots whose stem is the title of both (the document has
\* no title text), and a src that both rewrite.
C20_Witness ==
  /\ pc = "returned"
  /\ filename = File_ab
  /\ outcome.title = <<"a", ".", "b">>
  /\ load_mht(data, ScriptPath(filename)).title = <<"a", ".", "b">>
  /\ \E k \in SrcElements : SrcAfter(k) # SrcBefore(k)
  /\ load_mht(data, ScriptPath(filename)).body = outcome.body

\* C20, both fail: an archive without a text/html part.
C20_WitnessBothFail ==
  /\ pc = "raised"
  /\ IsMhtName(filename)
  /\ load_mht(data, ScriptPath(filename)).kind = "error"

\* Outside the claim: under the file name ".mht" the two fallbacks differ.
C20_WitnessEmptyStem ==
  /\ pc = "returned"
  /\ filename = File_dot
  /\ load_mht(data, ScriptPath(filename)).title # outcome.title

(***************************************************************************)
(* load_mht and the batch callers                                          *)
(***************************************************************************)

S_Untitled == <<"U", "n", "t", "i", "t", "l", "e", "d">>

\* The row insert_page_with_content(section_id, title, body_html, login) adds
\* (the section and the login are those of the run).
insert_page_with_content(title, body_html) ==
  [title |-> IF strip(title) = <<>> THEN S_Untitled ELSE strip(title), body |-> body_html]

\* The row the INSERT of the script's main() adds.
ScriptInsert(title, body) == [title |-> title, body |-> body]

\* A file of a batch: its name, its suffix in lower case, its content (the
\* parts of an archive, or the text of an .html file).
MhtFile(name, parts) == [name |-> name, suffix |-> ".mht", parts |-> parts, text |-> <<>>]
HtmlFile(name, text) == [name |-> name, suffix |-> ".html", parts |-> <<>>, text |-> text]

File_g == <<"g", ".", "m", "h", "t">>
File_h == <<"h", ".", "m", "h", "t">>
File_e == <<"e", ".", "m", "h", "t">>
File_w == <<"w", ".", "h", "t", "m", "l">>

Res_a == Part(ImagePng, <<77>>, Cid_a, None, <<>>)

\* The archives of a batch: two that parse, one without a text/html part, one
\* whose HTML part is empty.
MhtFiles ==
  { MhtFile(File_f, <<RootPart, HtmlPart(Img(Src_cid_a, "\"")), Res_a>>),
    MhtFile(File_g, <<RootPart, Res_a>>),
    MhtFile(File_h, <<RootPart, HtmlPart(WrappedDoc), Res_a>>),
    MhtFile(File_e, <<RootPart, HtmlPart(<<>>)>>) }

HtmlFiles == { HtmlFile(File_w, WrappedDoc) }

\* The batches of the upload widget: .mht files only (type=["mht"]), at least one.
UploadBatches == SeqsUpTo(MhtFiles, MaxFiles) \ {<<>>}

\* The batches of the script: the *.mht files of the folder, then the *.html files.
ScriptBatches ==
  {ms \o hs : ms \in SeqsUpTo(MhtFiles, MaxFiles), hs \in SeqsUpTo(HtmlFiles, 1)}

EngineIdle ==
  /\ data = <<>> /\ filename = <<>> /\ html_part = NoneHtml /\ resources = <<>>
  /\ src_map = EmptyMap /\ soup0 = <<>> /\ soup = <<>> /\ outcome = NoOutcome /\ idx = 0

\* The upload loop starts when files are uploaded and the import button is
\* clicked (app.py 690-692); main() of the script starts on the files found.
InitBatch ==
  /\ \/ pc = "upload_loop" /\ uploaded \in UploadBatches
     \/ pc = "import_main" /\ uploaded \in ScriptBatches
  /\ fileIdx = 1
  /\ pages = <<>>
  /\ imported = 0
  /\ errors = <<>>
  /\ shown = <<>>
  /\ EngineIdle
  /\ StripIdle
  /\ UIIdle

Message(kind, n, items) == [kind |-> kind, n |-> n, items |-> items]

\* for file in uploaded: try ... except Exception (app.py 693-701), one iteration.
UploadIteration ==
  /\ pc = "upload_loop"
  /\ fileIdx <= Len(uploaded)
  /\ LET file == uploaded[fileIdx]
         res == parse_mht_to_html(file.parts, file.name)
     IN IF res.kind = "ok"
        THEN /\ pages' = Append(pages, insert_page_with_content(res.title, res.body))
             /\ imported' = imported + 1
             /\ UNCHANGED errors
        ELSE /\ errors' = Append(errors, [name |-> file.name, exc |-> res.exc, msg |-> res.msg])
             /\ UNCHANGED <<pages, imported>>
  /\ fileIdx' = fileIdx + 1
  /\ UNCHANGED <<pc, uploaded, shown, engineVars, stripVars, uiVars>>

\* if imported: st.success(...); st.rerun() (app.py 702-704).  st.rerun() stops
\* the run of the script at once: the statements after it do not run.
ShowSuccessAndRerun ==
  /\ pc = "upload_loop"
  /\ fileIdx > Len(uploaded)
  /\ imported # 0
  /\ shown' = Append(shown, Message("success", imported, <<>>))
  /\ pc' = "rerun"
  /\ UNCHANGED <<uploaded, fileIdx, pages, imported, errors, engineVars, stripVars, uiVars>>

\* The rerun: the script runs again from the top with the button not clicked;
\* what the stopped run had displayed is replaced, its locals are gone.
Rerun ==
  /\ pc = "rerun"
  /\ shown' = <<>>
  /\ pc' = "app_done"
  /\ UNCHANGED <<uploaded, fileIdx, pages, imported, errors, engineVars, stripVars, uiVars>>

\* if errors: st.warning(";\n".join(errors)) (app.py 705-706), reached when
\* imported is 0.
ShowWarning ==
  /\ pc = "upload_loop"
  /\ fileIdx > Len(uploaded)
  /\ imported = 0
  /\ IF errors # <<>>
     THEN shown' = Append(shown, Message("warning", Len(errors), errors))
     ELSE UNCHANGED shown
  /\ pc' = "app_done"
  /\ UNCHANGED <<uploaded, fileIdx, pages, imported, errors, engineVars, stripVars, uiVars>>

\* for file in files (import.py 107-120), one iteration on an .mht file that
\* load_mht parses, or on an .html file.
ScriptIteration ==
  /\ pc = "import_main"
  /\ fileIdx <= Len(uploaded)
  /\ LET file == uploaded[fileIdx]
         res == IF file.suffix = ".mht" THEN load_mht(file.parts, file.name)
                ELSE load_html_file(file.text, file.name)
     IN /\ res.kind = "ok"
        /\ pages' = Append(pages, ScriptInsert(res.title, res.body))
  /\ fileIdx' = fileIdx + 1
  /\ UNCHANGED <<pc, uploaded, imported, errors, shown, engineVars, stripVars, uiVars>>

\* The same iteration when load_mht raises: nothing catches the exception, it
\* ends main() (import.py 110).
ScriptRaises ==
  /\ pc = "import_main"
  /\ fileIdx <= Len(uploaded)
  /\ uploaded[fileIdx].suffix = ".mht"
  /\ load_mht(uploaded[fileIdx].parts, uploaded[fileIdx].name).kind = "error"
  /\ pc' = "script_crashed"
  /\ UNCHANGED <<uploaded, fileIdx, pages, imported, errors, shown, engineVars, stripVars, uiVars>>

\* con.close() (import.py 122).
ScriptClose ==
  /\ pc = "import_main"
  /\ fileIdx > Len(uploaded)
  /\ pc' = "script_done"
  /\ UNCHANGED <<uploaded, fileIdx, pages, imported, errors, shown, engineVars, stripVars, uiVars>>

NextBatch ==
  \/ UploadIteration
  \/ ShowSuccessAndRerun
  \/ Rerun
  \/ ShowWarning
  \/ ScriptIteration
  \/ ScriptRaises
  \/ ScriptClose

SpecBatch == InitBatch /\ [][NextBatch]_vars

(***************************************************************************)
(* Properties of the batch callers (checked under SpecBatch)               *)
(***************************************************************************)

\* The batch is over: the upload run has ended, main() has returned or died.
BatchOver == pc \in {"app_done", "script_done", "script_crashed"}
UploadOver == pc = "app_done"

\* The engine parses file i of the batch.
Parses(i) ==
  uploaded[i].suffix = ".mht" /\ parse_mht_to_html(uploaded[i].parts, uploaded[i].name).kind = "ok"

\* The number of files among the first n that the engine parses.
RECURSIVE ParsedUpTo(_)
ParsedUpTo(n) == IF n = 0 THEN 0 ELSE ParsedUpTo(n - 1) + (IF Parses(n) THEN 1 ELSE 0)

\* The row of the page store that holds the body of file i.
HasPage(i) ==
  \E j \in 1..Len(pages) :
     pages[j].body = parse_mht_to_html(uploaded[i].parts, uploaded[i].name).body

\* C4: when a batch is over, every archive of it that parses has been inserted
\* as a page, wherever the failing archives stand in the batch, for the upload
\* loop of app.py and for main() of script/import.py.
C4_FailureIsolated ==
  BatchOver =>
    /\ \A i \in 1..Len(uploaded) : Parses(i) => HasPage(i)
    /\ Len(pages) >= ParsedUpTo(Len(uploaded))

\* The part of C4 that the code has: the upload loop of app.py inserts every
\* archive that parses.
C4_UploadLoopIsolates ==
  pc = "app_done" =>
    /\ \A i \in 1..Len(uploaded) : Parses(i) => HasPage(i)
    /\ Len(pages) = ParsedUpTo(Len(uploaded))

\* C5: when the upload run is over, every archive that failed is named, with
\* its reason, in a warning the user is shown, also when other archives of
\* the batch were imported.
C5_FailuresReported ==
  UploadOver =>
    \A i \in 1..Len(uploaded) :
       ~Parses(i) =>
         \E m \in Range(shown) :
            /\ m.kind = "warning"
            /\ \E e \in Range(m.items) : e.name = uploaded[i].name /\ e.msg # ""

(***************************************************************************)
(* strip_data_uri_images (src/app.py)                                      *)
(***************************************************************************)

\* soup.find_all("img"): the positions of the img elements.
FindAllImg(tree) == {k \in 1..Len(tree) : tree[k].t = "start" /\ tree[k].name = N_img}

\* HoldsDataUri with a bug: the scheme is compared without regard to case.
HoldsDataUri_AnyCase(tag) == startswith(lower(GetAttr(tag, N_src)), S_data)

\* src = img.get("src", ""); src.startswith("data:")
HoldsDataUri(tag) == startswith(GetAttr(tag, N_src), S_data)

\* strip_data_uri_images with a bug: the loop stops after the first img it blanks.
strip_FirstImgOnly(h) ==
  LET tree == BeautifulSoup(h)
      hits == {k \in 1..Len(tree) :
                 /\ tree[k].t = "start" /\ tree[k].name = N_img
                 /\ startswith(GetAttr(tree[k], N_src), S_data)}
      first == CHOOSE k \in hits : \A j \in hits : k <= j
  IN IF hits # {}
     THEN SoupToStr([tree EXCEPT ![first] = SetAttr(tree[first], N_src, <<>>)])
     ELSE h

\* strip_data_uri_images(html): argument and result are HTML text (or None).
strip_data_uri_images(h) ==
  LET tree == BeautifulSoup(h)
      hits == {k \in FindAllImg(tree) : HoldsDataUri(tree[k])}
      blanked == [k \in 1..Len(tree) |->
                    IF k \in hits THEN SetAttr(tree[k], N_src, <<>>) ELSE tree[k]]
  IN IF hits # {} THEN SoupToStr(blanked) ELSE h

(***************************************************************************)
(* SpecStrip: strip_data_uri_images on a stored body, and again on what it *)
(* returned (what the editor hands back is what the next run strips)       *)
(***************************************************************************)

DataUri_png == DataUrl(ImagePng, <<77>>)
Src_DATA == <<"D", "A", "T", "A", ":", "x">>

\* The elements of the stored bodies.
StoredElements ==
  { Img(DataUri_png, "\""),
    <<StartTok(<<"I", "M", "G">>, <<RawAttr(<<"S", "R", "C">>, DataUrl(ImageGif, <<1, 2>>), "'"),
                         RawAttr(N_alt, <<"x">>, "")>>, FALSE)>>,
    Img(Src_n, "'"),
    Img(Src_DATA, "\""),
    <<StartTok(N_img, <<RawAttr(N_alt, S_data, "\"")>>, TRUE)>>,
    <<StartTok(N_script, <<RawAttr(N_src, DataUri_png, "\"")>>, FALSE), EndTok(N_script)>>,
    <<StartTok(N_p, <<>>, FALSE), TextTok(S_data), EndTok(N_p)>>,
    <<StartTok(N_img, <<RawAttr(N_src, Src_n, "\""), RawAttr(N_src, DataUri_png, "\"")>>, TRUE)>> }

StoredBodies == {Flatten(es) : es \in SeqsUpTo(StoredElements, MaxTags)} \cup {NoneHtml}

InitStrip ==
  /\ pc = "strip"
  /\ html \in StoredBodies
  /\ stripped = NoneHtml
  /\ EngineIdle
  /\ CallersIdle
  /\ UIIdle

\* editable_html = strip_data_uri_images(current_html) (app.py 904).
StripCall ==
  /\ pc = "strip"
  /\ stripped' = strip_data_uri_images(html)
  /\ pc' = "stripped"
  /\ UNCHANGED <<html, engineVars, callerVars, uiVars>>

\* The same call on what the first call returned.
StripAgain ==
  /\ pc = "stripped"
  /\ html' = stripped
  /\ stripped' = strip_data_uri_images(stripped)
  /\ pc' = "stripped_twice"
  /\ UNCHANGED <<engineVars, callerVars, uiVars>>

NextStrip ==
  \/ StripCall
  \/ StripAgain

SpecStrip == InitStrip /\ [][NextStrip]_vars

(***************************************************************************)
(* Properties of strip_data_uri_images (checked under SpecStrip)           *)
(***************************************************************************)

\* C9: strip_data_uri_images is idempotent: the call on the result of a call
\* returns that result (after StripAgain, html holds strip(h) and stripped
\* holds strip(strip(h))).
C9_StripIdempotent == pc = "stripped_twice" => stripped = html

C9_Witness ==
  /\ pc = "stripped_twice"
  /\ stripped = html
  /\ \E k \in FindAllImg(BeautifulSoup(html)) :
        HasAttr(BeautifulSoup(html)[k], N_src) /\ GetAttr(BeautifulSoup(html)[k], N_src) = <<>>
  /\ Cardinality(FindAllImg(BeautifulSoup(html))) > 1

\* The img elements of the argument whose src begins with "data:".
BeginsWithData(v) == Len(v) >= 5 /\ SubSeq(v, 1, 5) = <<"d", "a", "t", "a", ":">>
DataImgs ==
  {k \in 1..Len(BeautifulSoup(html)) :
     /\ BeautifulSoup(html)[k].t = "start"
     /\ BeautifulSoup(html)[k].name = <<"i", "m", "g">>
     /\ BeginsWithData(GetAttr(BeautifulSoup(html)[k], N_src))}

\* C10: the result of a call spells the tree of the argument with the src of
\* every img element whose src begins with "data:" blanked and every other
\* element, attribute and text as it was; when there is no such img element
\* the result is the argument itself, spelling included; every argument has a
\* result.
C10_StripBlanksDataImgs ==
  pc = "stripped" =>
    LET before == BeautifulSoup(html)
        after == BeautifulSoup(stripped)
    IN /\ Len(after) = Len(before)
       /\ \A k \in 1..Len(before) :
             /\ SameButSrc(before[k], after[k])
             /\ GetAttr(after[k], N_src) =
                  (IF k \in DataImgs THEN <<>> ELSE GetAttr(before[k], N_src))
             /\ HasAttr(after[k], N_src) = HasAttr(before[k], N_src)
       /\ DataImgs = {} => stripped = html
       /\ html # NoneHtml => stripped # NoneHtml

C10_Witness ==
  /\ pc = "stripped"
  /\ DataImgs # {}
  /\ \E k \in 1..Len(BeautifulSoup(html)) :
        k \notin DataImgs /\ BeginsWithData(GetAttr(BeautifulSoup(html)[k], N_src))
  /\ stripped # html

\* C10, second case: an argument without such an img element, whose spelling
\* is not the one the serializer writes, is returned as it is.
C10_WitnessUnchanged ==
  /\ pc = "stripped"
  /\ DataImgs = {}
  /\ html # NoneHtml /\ html # <<>>
  /\ SoupToStr(BeautifulSoup(html)) # html
  /\ stripped = html

(***************************************************************************)
(* The database operations of app.py                                       *)
(*                                                                         *)
(* The store holds the tables the operations write: the notebooks (id is   *)
(* the position, with the closed flag), the owners (pairs of notebook id   *)
(* and login), the sections (id is the position, with the notebook id) and *)
(* the pages (id is the position; a deleted row stays as a position that   *)
(* is not alive, ids are not used again).  The tag of a page, the          *)
(* departments and the time stamps are not modelled.                       *)
(***************************************************************************)

\* Bound of the store: the rows of the four tables together.
MaxRows == 6

Rows(st) == Len(st.nbs) + Cardinality(st.owners) + Len(st.secs) + Len(st.pages)

S_NewPage == <<"N", "e", "w">>
S_NoTitle == <<"N", "o", "n", "e">>

\* is_notebook_owner(notebook_id, user_login)
is_notebook_owner(st, notebook_id, user_login) == <<notebook_id, user_login>> \in st.owners

\* get_notebooks(user_login): WHERE closed = FALSE OR id IN (owned notebooks).
get_notebooks(st, user_login) ==
  {n \in 1..Len(st.nbs) : ~st.nbs[n].closed \/ <<n, user_login>> \in st.owners}

\* get_sections(notebook_id)
get_sections(st, notebook_id) == {x \in 1..Len(st.secs) : st.secs[x] = notebook_id}

\* load_pages_df(notebook_id, section_id, allowed_notebook_ids, ...): the ids of
\* the rows, without a search text; 0 stands for None.
load_pages_df(st, notebook_id, section_id, allowed_notebook_ids) ==
  {p \in 1..Len(st.pages) :
     /\ st.pages[p].alive
     /\ st.secs[st.pages[p].sec] \in allowed_notebook_ids
     /\ notebook_id # 0 => st.secs[st.pages[p].sec] = notebook_id
     /\ section_id # 0 => st.pages[p].sec = section_id}

\* add_notebook_owner(notebook_id, user_login): INSERT ... ON CONFLICT DO NOTHING.
add_notebook_owner(st, notebook_id, user_login) ==
  [st EXCEPT !.owners = @ \cup {<<notebook_id, user_login>>}]

\* set_notebook_closed(notebook_id, closed)
set_notebook_closed(st, notebook_id, closed) ==
  [st EXCEPT !.nbs[notebook_id].closed = closed]

\* create_notebook(name, user_login, department_id): the INSERT, then
\* add_notebook_owner(new_id, user_login).
create_notebook(st, user_login) ==
  add_notebook_owner([st EXCEPT !.nbs = Append(@, [closed |-> FALSE])],
                     Len(st.nbs) + 1, user_login)

\* create_section(notebook_id, name, user_login)
create_section(st, notebook_id) == [st EXCEPT !.secs = Append(@, notebook_id)]

\* create_page(section_id, user_login, title=None): an empty page.
create_page(st, section_id) ==
  [st EXCEPT !.pages =
     Append(@, [sec |-> section_id, alive |-> TRUE, title |-> S_NewPage, body |-> <<>>])]

\* insert_page_with_content(section_id, title, body_html, user_login) on the store.
InsertPage(st, section_id, title, body_html) ==
  [st EXCEPT !.pages =
     Append(@, [sec |-> section_id, alive |-> TRUE] @@ insert_page_with_content(title, body_html))]

\* update_page with a bug: the body of the row is left as it is.
update_page_KeepsBody(st, page_id, title, body_html) ==
  IF page_id \in 1..Len(st.pages) /\ st.pages[page_id].alive
  THEN [st EXCEPT !.pages[page_id].title = IF strip(title) = <<>> THEN S_NoTitle ELSE strip(title)]
  ELSE st

\* update_page(page_id, title, body_html, tag)
update_page(st, page_id, title, body_html) ==
  IF page_id \in 1..Len(st.pages) /\ st.pages[page_id].alive
  THEN [st EXCEPT !.pages[page_id].title = IF strip(title) = <<>> THEN S_NoTitle ELSE strip(title),
                  !.pages[page_id].body = body_html]
  ELSE st

\* delete_page(page_id)
delete_page(st, page_id) ==
  IF page_id \in 1..Len(st.pages)
  THEN [st EXCEPT !.pages[page_id].alive = FALSE,
                  !.pages[page_id].title = <<>>,
                  !.pages[page_id].body = <<>>]
  ELSE st

\* can_edit_notebook with a bug: a selected notebook is enough.
can_edit_AnySelected(st, selected_notebook_id, selected_login) == selected_notebook_id # 0

\* can_edit_notebook = bool(selected_notebook_id and
\*                          is_notebook_owner(selected_notebook_id, selected_login))
can_edit_notebook(st, selected_notebook_id, selected_login) ==
  selected_notebook_id # 0 /\ is_notebook_owner(st, selected_notebook_id, selected_login)

(***************************************************************************)
(* SpecUI: the runs of main() of app.py                                    *)
(*                                                                         *)
(* Streamlit runs main() from the top on every interaction.  An action is  *)
(* one run: the user has one notebook and one section selected in the      *)
(* select boxes (n and x, 0 for None) and has clicked one button; the      *)
(* guard of the action is the conditions of the code on the way to the     *)
(* handler of that button.  One session is modelled; the department filter *)
(* is at "00" (no filter) and the search field is empty.                   *)
(***************************************************************************)

\* list_users(): the registered logins.  The login of the session may also be
\* the database user, who need not be registered.
Users == {"u", "v"}
Logins == Users \cup {"w"}

\* A database operation a run has called: the function, the notebook and the
\* page it writes, the notebook selected in the run, the caller ("main" or the
\* operation that called it) and, for update_page, the row as it was.
Call(op, nb, page, selected, via, before) ==
  [op |-> op, nb |-> nb, page |-> page, selected |-> selected, via |-> via, before |-> before]

NoRow == [sec |-> 0, alive |-> FALSE, title |-> <<>>, body |-> <<>>]

\* The bodies of the pages the store starts with: inlined images and text, an
\* image by reference.
InitBodies ==
  { Img(DataUri_png, "\"") \o <<StartTok(N_p, <<>>, FALSE), TextTok(<<"h", "i">>), EndTok(N_p)>>
      \o <<StartTok(<<"I", "M", "G">>, <<RawAttr(N_src, DataUrl(ImageGif, <<1, 2>>), "'")>>, FALSE)>>
      \o Img(Src_n, "'") }

\* What the user may have typed in the editor.
EditorTexts == { <<StartTok(N_p, <<>>, FALSE), TextTok(<<"e", "d">>), EndTok(N_p)>> }

\* The batches of the upload widget in these runs.
ImportBatches ==
  { <<MhtFile(File_g, <<RootPart, Res_a>>),
      MhtFile(File_h, <<RootPart, HtmlPart(Img(Src_cid_a, "\"")), Res_a>>)>> }

\* The store at the start: one notebook of user "u", open or closed, with one
\* section and one page.
InitUI ==
  /\ pc = "ui"
  /\ \E closed \in BOOLEAN, b \in InitBodies :
        store = [nbs |-> <<[closed |-> closed]>>,
                 owners |-> {<<1, "u">>},
                 secs |-> <<1>>,
                 pages |-> <<[sec |-> 1, alive |-> TRUE, title |-> <<"T">>, body |-> b]>>]
  /\ \E login \in Logins :
        ui = [login |-> login, current |-> 0, page |-> 0, quill |-> <<>>, title |-> <<>>]
  /\ calls = {}
  /\ EngineIdle
  /\ CallersIdle
  /\ StripIdle

\* The select boxes of a run (app.py 550-627): a notebook of
\* get_notebooks(selected_login) when there is one, a section of it when it
\* has one.
Selected(n, x) ==
  /\ IF get_notebooks(store, ui.login) = {} THEN n = 0 ELSE n \in get_notebooks(store, ui.login)
  /\ IF n = 0 \/ get_sections(store, n) = {} THEN x = 0 ELSE x \in get_sections(store, n)

\* pages_df of a run (app.py 711-717).
PagesDf(n, x) == load_pages_df(store, n, x, get_notebooks(store, ui.login))

\* "Создать книгу" (app.py 590-605): any registered user.
CreateNotebook ==
  /\ pc = "ui"
  /\ \E n \in 0..Len(store.nbs), x \in 0..Len(store.secs) :
        /\ Selected(n, x)
        /\ ui.login \in Users
        /\ Rows(store) + 2 <= MaxRows
        /\ store' = create_notebook(store, ui.login)
        /\ calls' = { Call("create_notebook", Len(store.nbs) + 1, 0, n, "main", NoRow),
                      Call("add_notebook_owner", Len(store.nbs) + 1, 0, n, "create_notebook", NoRow) }
  /\ UNCHANGED <<pc, ui, engineVars, callerVars, stripVars>>

\* "Создать раздел" (app.py 631-636).
CreateSection ==
  /\ pc = "ui"
  /\ \E n \in 0..Len(store.nbs), x \in 0..Len(store.secs) :
        /\ Selected(n, x)
        /\ n # 0
        /\ can_edit_notebook(store, n, ui.login)
        /\ Rows(store) < MaxRows
        /\ store' = create_section(store, n)
        /\ calls' = { Call("create_section", n, 0, n, "main", NoRow) }
  /\ UNCHANGED <<pc, ui, engineVars, callerVars, stripVars>>

\* "Сохранить доступы" (app.py 650-676): the closed flag of the form and the
\* owner to add, "" or a registered login that is not an owner yet.
SaveAccess ==
  /\ pc = "ui"
  /\ \E n \in 0..Len(store.nbs), x \in 0..Len(store.secs), closed_value \in BOOLEAN,
        new_owner_login \in {""} \cup Users :
        /\ Selected(n, x)
        /\ n # 0
        /\ can_edit_notebook(store, n, ui.login)
        /\ new_owner_login # "" =>
              <<n, new_owner_login>> \notin store.owners /\ Rows(store) < MaxRows
        /\ store' = IF new_owner_login # ""
                    THEN add_notebook_owner(set_notebook_closed(store, n, closed_value),
                                            n, new_owner_login)
                    ELSE set_notebook_closed(store, n, closed_value)
        /\ calls' = { Call("set_notebook_closed", n, 0, n, "main", NoRow) }
                    \cup (IF new_owner_login # ""
                          THEN { Call("add_notebook_owner", n, 0, n, "main", NoRow) }
                          ELSE {})
  /\ UNCHANGED <<pc, ui, engineVars, callerVars, stripVars>>

\* The upload loop on the store (app.py 693-701): the files that parse are
\* inserted into the selected section.
RECURSIVE ImportFrom(_, _, _, _)
ImportFrom(st, section_id, files, i) ==
  IF i > Len(files) THEN st
  ELSE LET res == parse_mht_to_html(files[i].parts, files[i].name)
       IN ImportFrom(IF res.kind = "ok" THEN InsertPage(st, section_id, res.title, res.body) ELSE st,
                     section_id, files, i + 1)

\* "Импортировать .mht" (app.py 678-706).
ImportMht ==
  /\ pc = "ui"
  /\ \E n \in 0..Len(store.nbs), x \in 0..Len(store.secs), batch \in ImportBatches :
        /\ Selected(n, x)
        /\ n # 0
        /\ can_edit_notebook(store, n, ui.login)
        /\ x # 0
        /\ Rows(store) < MaxRows
        /\ store' = ImportFrom(store, x, batch, 1)
        /\ calls' = { Call("insert_page_with_content", store.secs[x], p, n, "main", NoRow) :
                        p \in (Len(store.pages) + 1)..Len(ImportFrom(store, x, batch, 1).pages) }
  /\ UNCHANGED <<pc, ui, engineVars, callerVars, stripVars>>

\* "Новая страница" (app.py 741-763) and the run st.rerun() starts: the new
\* page is the current page and its edit mode is forced, so the editor opens
\* on its empty body.
CreatePage ==
  /\ pc = "ui"
  /\ \E n \in 0..Len(store.nbs), x \in 0..Len(store.secs) :
        /\ Selected(n, x)
        /\ can_edit_notebook(store, n, ui.login)
        /\ x # 0
        /\ Rows(store) < MaxRows
        /\ store' = create_page(store, x)
        /\ calls' = { Call("create_page", store.secs[x], Len(store.pages) + 1, n, "main", NoRow) }
        /\ ui' = [ui EXCEPT !.current = Len(store.pages) + 1,
                            !.page = Len(store.pages) + 1,
                            !.quill = strip_data_uri_images(<<>>),
                            !.title = S_NewPage]
  /\ UNCHANGED <<pc, engineVars, callerVars, stripVars>>

\* A row of the list is selected (app.py 799-820): the page is shown, by an
\* owner or not; nothing is written.
ViewPage ==
  /\ pc = "ui"
  /\ \E n \in 0..Len(store.nbs), x \in 0..Len(store.secs) :
        /\ Selected(n, x)
        /\ \E p \in PagesDf(n, x) :
              /\ p # ui.current
              /\ ui' = [ui EXCEPT !.current = p]
  /\ calls' = {}
  /\ UNCHANGED <<pc, store, engineVars, callerVars, stripVars>>

\* "Редактировать страницу" is checked on the current page (app.py 849-910):
\* the title field gets the title, the editor gets
\* strip_data_uri_images(current_html).
OpenEdit ==
  /\ pc = "ui"
  /\ \E n \in 0..Len(store.nbs), x \in 0..Len(store.secs) :
        /\ Selected(n, x)
        /\ ui.current \in PagesDf(n, x)
        /\ can_edit_notebook(store, n, ui.login)
        /\ ui.page # ui.current
        /\ ui' = [ui EXCEPT !.page = ui.current,
                            !.quill = strip_data_uri_images(store.pages[ui.current].body),
                            !.title = store.pages[ui.current].title]
  /\ calls' = {}
  /\ UNCHANGED <<pc, store, engineVars, callerVars, stripVars>>

\* The user types in the editor: the widget holds the new content, nothing is
\* written.
EditContent ==
  /\ pc = "ui"
  /\ ui.page # 0
  /\ \E text \in EditorTexts : text # ui.quill /\ ui' = [ui EXCEPT !.quill = text]
  /\ calls' = {}
  /\ UNCHANGED <<pc, store, engineVars, callerVars, stripVars>>

\* "Сохранить изменения" (app.py 917-920): update_page(page_id, new_title,
\* quill_html, new_tag) with quill_html = st_quill(...) or "".
SavePage ==
  /\ pc = "ui"
  /\ \E n \in 0..Len(store.nbs), x \in 0..Len(store.secs) :
        /\ Selected(n, x)
        /\ ui.page # 0 /\ ui.page = ui.current
        /\ ui.page \in PagesDf(n, x)
        /\ can_edit_notebook(store, n, ui.login)
        /\ store' = update_page(store, ui.page, ui.title, ui.quill)
        /\ calls' = { Call("update_page", store.secs[store.pages[ui.page].sec], ui.page, n, "main",
                           store.pages[ui.page]) }
  /\ UNCHANGED <<pc, ui, engineVars, callerVars, stripVars>>

\* "Удалить страницу" with the confirmation checked (app.py 921-925).
DeletePage ==
  /\ pc = "ui"
  /\ \E n \in 0..Len(store.nbs), x \in 0..Len(store.secs) :
        /\ Selected(n, x)
        /\ ui.page # 0 /\ ui.page = ui.current
        /\ ui.page \in PagesDf(n, x)
        /\ can_edit_notebook(store, n, ui.login)
        /\ store' = delete_page(store, ui.page)
        /\ calls' = { Call("delete_page", store.secs[store.pages[ui.page].sec], ui.page, n, "main",
                           NoRow) }
        /\ ui' = [ui EXCEPT !.current = 0, !.page = 0, !.quill = <<>>, !.title = <<>>]
  /\ UNCHANGED <<pc, engineVars, callerVars, stripVars>>

NextUI ==
  \/ CreateNotebook
  \/ CreateSection
  \/ SaveAccess
  \/ ImportMht
  \/ CreatePage
  \/ ViewPage
  \/ OpenEdit
  \/ EditContent
  \/ SavePage
  \/ DeletePage

SpecUI == InitUI /\ [][NextUI]_vars

(***************************************************************************)
(* Properties of the runs of main() (checked under SpecUI)                 *)
(***************************************************************************)

\* The img elements of a body whose src is a data URI.
DataImgsOf(body) == {k \in FindAllImg(BeautifulSoup(body)) : HoldsDataUri(BeautifulSoup(body)[k])}

\* The img elements of a body whose src is present and empty.
BlankImgsOf(body) ==
  {k \in FindAllImg(BeautifulSoup(body)) :
     HasAttr(BeautifulSoup(body)[k], N_src) /\ GetAttr(BeautifulSoup(body)[k], N_src) = <<>>}

\* A run that puts a page in edit mode: the rows of the store stay as they
\* are and the editor holds strip_data_uri_images of the stored body.
OpeningKeepsStore ==
  (ui'.page # 0 /\ ui'.page # ui.page) =>
     /\ \A p \in 1..Len(store.pages) : store'.pages[p] = store.pages[p]
     /\ ui'.quill = strip_data_uri_images(store'.pages[ui'.page].body)

\* A row of pages changes only in a run that called update_page or delete_page
\* for it.
RowChangesOnSaveOrDelete ==
  \A p \in 1..Len(store.pages) :
     store'.pages[p] # store.pages[p] =>
        \E c \in calls' : c.op \in {"update_page", "delete_page"} /\ c.page = p

\* Save stores what the editor holds; when that is what the editor was given,
\* the img elements that held a data URI have an empty src in the new body.
SaveStoresEditor ==
  \A c \in calls' :
     c.op = "update_page" =>
        /\ store'.pages[c.page].body = ui.quill
        /\ ui.quill = strip_data_uri_images(store.pages[c.page].body) =>
              DataImgsOf(store.pages[c.page].body) \subseteq BlankImgsOf(store'.pages[c.page].body)

\* C21: opening a page in edit mode hands strip_data_uri_images(stored body) to
\* the editor and leaves the stored body as it is; a stored row changes only on
\* Save or Delete; Save stores the editor content as it is, so that Save with
\* unmodified editor content stores a body in which every img that held a data
\* URI has an empty src.
C21_EditSaveSequence ==
  [][OpeningKeepsStore /\ RowChangesOnSaveOrDelete /\ SaveStoresEditor]_vars

\* A Save with unmodified editor content has replaced a body with two inlined
\* images by a body in which both have an empty src.
C21_Witness ==
  \E c \in calls :
     /\ c.op = "update_page"
     /\ Cardinality(DataImgsOf(c.before.body)) = 2
     /\ ui.quill = strip_data_uri_images(c.before.body)
     /\ store.pages[c.page].body = ui.quill
     /\ store.pages[c.page].body # c.before.body
     /\ DataImgsOf(c.before.body) \subseteq BlankImgsOf(store.pages[c.page].body)
     /\ DataImgsOf(store.pages[c.page].body) = {}

\* A page with inlined images is in edit mode and nothing has been stored.
C21_WitnessOpened ==
  /\ ui.page # 0
  /\ calls = {}
  /\ DataImgsOf(store.pages[ui.page].body) # {}
  /\ ui.quill = strip_data_uri_images(store.pages[ui.page].body)
  /\ ui.quill # store.pages[ui.page].body

\* The operations that change the content or the access of a notebook.
MutatingOps ==
  { "create_section", "insert_page_with_content", "create_page", "update_page",
    "delete_page", "set_notebook_closed", "add_notebook_owner" }

\* The call is made in a run in which a notebook is selected, the user of the
\* session is an owner of it at the start of the run, and it is the notebook
\* the call writes.
OwnerGuarded(c) ==
  /\ c.selected # 0
  /\ is_notebook_owner(store, c.selected, ui.login)
  /\ c.nb = c.selected

\* The call create_notebook makes for the notebook it has just inserted: the
\* user who created it becomes its owner.
CreatorCall(c) ==
  /\ c.op = "add_notebook_owner"
  /\ c.via = "create_notebook"
  /\ c.nb = Len(store.nbs) + 1
  /\ ui.login \in Users
  /\ store'.owners = store.owners \cup {<<c.nb, ui.login>>}

\* What the store holds of one notebook: its flag, its owners, its sections
\* and the rows of its pages.
NotebookState(st, n) ==
  [closed |-> st.nbs[n].closed,
   owners |-> {o \in st.owners : o[1] = n},
   secs |-> get_sections(st, n),
   pages |-> {<<p, st.pages[p]>> : p \in {q \in 1..Len(st.pages) : st.secs[st.pages[q].sec] = n}}]

\* A run leaves the notebooks the user does not own as they are.
NotOwnedUntouched ==
  \A n \in 1..Len(store.nbs) :
     ~is_notebook_owner(store, n, ui.login) => NotebookState(store', n) = NotebookState(store, n)

\* The page a run shows is a page of a notebook of get_notebooks(login).
ShownIsVisible ==
  (ui'.current # 0 /\ ui'.current # ui.current) =>
     store'.secs[store'.pages[ui'.current].sec] \in get_notebooks(store', ui.login)

\* C22 as stated: every call of create_section, insert_page_with_content,
\* create_page, update_page, delete_page, set_notebook_closed and
\* add_notebook_owner is made in a run in which a notebook is selected and the
\* user is an owner of it; a user who is not an owner only views.
C22_OwnerOnlyMutation ==
  [][/\ \A c \in calls' : c.op \in MutatingOps => OwnerGuarded(c)
     /\ NotOwnedUntouched
     /\ ShownIsVisible]_vars

\* C22 with the call of create_notebook set apart: every call of the seven
\* operations is made in a run in which a notebook is selected and the user is
\* an owner of it, except the add_notebook_owner that create_notebook makes for
\* the notebook it has just created, which any registered user reaches; a run
\* leaves the notebooks the user does not own as they are, and shows only pages
\* of notebooks visible to the user.
C22_OwnerOnlyExceptCreator ==
  [][/\ \A c \in calls' : c.op \in MutatingOps => OwnerGuarded(c) \/ CreatorCall(c)
     /\ NotOwnedUntouched
     /\ ShownIsVisible]_vars

\* An owner has saved the access form of the selected notebook, adding an
\* owner, while the store holds a notebook the user does not own.
C22_Witness ==
  /\ \E c \in calls :
        /\ c.op = "add_notebook_owner" /\ c.via = "main"
        /\ c.selected = c.nb
        /\ is_notebook_owner(store, c.nb, ui.login)
        /\ Cardinality({o \in store.owners : o[1] = c.nb}) = 2
  /\ \E c \in calls : c.op = "set_notebook_closed"

\* A registered user who owns no notebook has created one and owns it now.
C22_WitnessCreator ==
  \E c \in calls :
     /\ c.op = "add_notebook_owner" /\ c.via = "create_notebook"
     /\ c.selected # c.nb
     /\ \A n \in 1..(Len(store.nbs) - 1) : ~is_notebook_owner(store, n, ui.login)
     /\ is_notebook_owner(store, c.nb, ui.login)

\* A user who is not an owner looks at a page of an open notebook.
C22_WitnessViewer ==
  /\ ui.current # 0
  /\ ui.page = 0
  /\ calls = {}
  /\ ~is_notebook_owner(store, store.secs[store.pages[ui.current].sec], ui.login)
  /\ ~store.nbs[store.secs[store.pages[ui.current].sec]].closed

====
